---- MODULE Spec2Model ----
(***************************************************************************)
(* A model of the diagnostic workflow of the SentientGrid multi-agent      *)
(* system: the Orchestrator's control loop (agents/orchestrator.py), the   *)
(* agents it calls (planner, executor, replanner, synthesizer), the human  *)
(* review gate and the decision channel (shared_decision.py), and the      *)
(* handlers of the HTTP server that start workflows and write decisions    *)
(* (api_server.py).                                                        *)
(*                                                                         *)
(* Text is modelled as a sequence of fragments.  Steps, tool results and   *)
(* feedback are sequences of one-character fragments, so that prefix,      *)
(* substring, case folding, trimming and slicing are computed as Python    *)
(* computes them.  The empty text is <<>>.                                 *)
(*                                                                         *)
(* An optional value (Python's None or a value) is a sequence of length    *)
(* at most one: None is <<>>, a present value x is <<x>>.  A Python dict   *)
(* with optional keys is a record whose DOMAIN is the set of keys present. *)
(***************************************************************************)
EXTENDS Integers, Sequences, FiniteSets, TLC

VARIABLES
    human_decision,        \* shared_decision.human_decision (the channel)
    conversation_history,  \* Orchestrator.conversation_history
    state,                 \* per workflow task: the DiagnosticState dict
    pc,                    \* per workflow task: position in run_diagnostic_workflow
    current_iteration,     \* per workflow task: the loop counter
    replan_output,         \* per workflow task: dict returned by decide_next_action
    review,                \* per workflow task: locals of _human_in_the_loop_review
    system_state,          \* api_server.system_state (the fields the handlers use)
    obs                    \* history variable: what has been observed so far

vars == <<human_decision, conversation_history, state, pc, current_iteration,
          replan_output, review, system_state, obs>>

(***************************************************************************)
(* Bounds of the model.                                                    *)
(***************************************************************************)
\* Polls of one review cycle before it times out.  The program polls every
\* wait_interval = 0.5 s up to max_wait_time = 300 s, that is 600 polls.
MaxPolls == 2

\* Writes to the decision channel in one behaviour of Spec.
MaxWrites == 1

\* Writes to the decision channel in one behaviour of SpecConcurrent.
MaxChannelWrites == 2

\* Raw steps in one answer of the planner's service in SpecOracles.
MaxRawSteps == 3

\* Executed steps before the two most recent ones in SpecOracles.
MaxEarlierSteps == 3

\* Turns in the conversation memory at the start of SpecMemory.
MaxTurns == 5

(***************************************************************************)
(* Program constants.                                                      *)
(***************************************************************************)
max_iterations == 5
HardStepLimit == 5
SoftStepLimit == 3
LongStepLength == 80
ModifyPlanLimit == 3
ResultPrefixLength == 200
FeedbackExcerptLength == 50
RecentTurns == 3

(***************************************************************************)
(* Optional values.                                                        *)
(***************************************************************************)
None == <<>>
Some(x) == <<x>>
Value(o) == o[1]

\* dict.get(key, default)
DictGet(d, key, default) == IF key \in DOMAIN d THEN d[key] ELSE default

(***************************************************************************)
(* Text operations (Python str methods used by the program).               *)
(***************************************************************************)
UpperCase ==
    <<"A","B","C","D","E","F","G","H","I","J","K","L","M",
      "N","O","P","Q","R","S","T","U","V","W","X","Y","Z">>
LowerCase ==
    <<"a","b","c","d","e","f","g","h","i","j","k","l","m",
      "n","o","p","q","r","s","t","u","v","w","x","y","z">>

\* str.lower() of one character
LowerChar(c) ==
    IF \E i \in 1..Len(UpperCase) : UpperCase[i] = c
    THEN LowerCase[CHOOSE i \in 1..Len(UpperCase) : UpperCase[i] = c]
    ELSE c

\* str.lower()
Lower(s) == [i \in 1..Len(s) |-> LowerChar(s[i])]

IsSpace(c) == c \in {" ", "\n", "\t"}

\* str.strip()
Strip(s) ==
    LET idx == {i \in 1..Len(s) : ~IsSpace(s[i])}
    IN  IF idx = {} THEN <<>>
        ELSE LET lo == CHOOSE i \in idx : \A j \in idx : i <= j
                 hi == CHOOSE i \in idx : \A j \in idx : j <= i
             IN  SubSeq(s, lo, hi)

\* s[:n]
Take(s, n) == SubSeq(s, 1, IF Len(s) < n THEN Len(s) ELSE n)

\* s.startswith(p)
StartsWith(s, p) == Len(p) <= Len(s) /\ SubSeq(s, 1, Len(p)) = p

\* sub in s
Contains(s, sub) ==
    \E i \in 1..(Len(s) - Len(sub) + 1) : SubSeq(s, i, i + Len(sub) - 1) = sub

\* sep.join(parts)
RECURSIVE Join(_, _)
Join(parts, sep) ==
    IF parts = <<>> THEN <<>>
    ELSE IF Len(parts) = 1 THEN parts[1]
    ELSE parts[1] \o sep \o Join(Tail(parts), sep)

\* str(n) for the small counts the program formats into text
Str(n) == <<<<"0">>, <<"1">>, <<"2">>, <<"3">>, <<"4">>, <<"5">>, <<"6">>>>[n + 1]

\* x in xs, for a list xs
InList(x, xs) == \E i \in 1..Len(xs) : xs[i] = x

IsPrefix(s, t) == Len(s) <= Len(t) /\ SubSeq(t, 1, Len(s)) = s

(***************************************************************************)
(* String literals of the program.                                         *)
(***************************************************************************)
SCADA_PREFIX ==
    <<"S","C","A","D","A",":">>
MANUAL_PREFIX ==
    <<"M","A","N","U","A","L",":">>
GroqFallbackStep ==
    <<"S","C","A","D","A",":"," ","G","e","t"," ","s","y","s","t","e","m"," ",
      "i","n","f","o","r","m","a","t","i","o","n">>
DefaultStep ==
    <<"S","C","A","D","A",":"," ","G","e","t"," ","c","u","r","r","e","n","t"," ",
      "s","y","s","t","e","m"," ","r","e","a","d","i","n","g","s">>
FeedbackFallbackHead ==
    <<"S","C","A","D","A",":"," ","A","d","d","r","e","s","s"," ",
      "f","e","e","d","b","a","c","k"," ","-"," ">>
Ellipsis ==
    <<".",".",".">>
IncorporatingHead ==
    <<" ","(","i","n","c","o","r","p","o","r","a","t","i","n","g",":"," ">>
IncorporatingTail ==
    <<".",".",".",")">>
pure_analysis_phrases ==
    { <<"d","e","t","e","r","m","i","n","e"," ","r","o","o","t"," ","c","a","u","s","e">>,
      <<"m","a","k","e"," ","d","e","c","i","s","i","o","n">>,
      <<"d","e","c","i","d","e"," ","o","n">>,
      <<"r","e","c","o","m","m","e","n","d"," ","a","c","t","i","o","n">>,
      <<"c","o","n","c","l","u","d","e"," ","t","h","a","t">>,
      <<"s","y","n","t","h","e","s","i","z","e"," ","r","e","s","u","l","t","s">>,
      <<"p","r","o","v","i","d","e"," ","r","e","c","o","m","m","e","n","d","a","t","i","o","n">>,
      <<"i","d","e","n","t","i","f","y"," ","t","h","e"," ","p","r","o","b","l","e","m">>,
      <<"d","i","a","g","n","o","s","e"," ","t","h","e"," ","i","s","s","u","e">> }
data_gathering_verbs ==
    { <<"g","e","t">>, <<"c","h","e","c","k">>, <<"s","e","a","r","c","h">>,
      <<"f","i","n","d">>, <<"q","u","e","r","y">>, <<"r","e","t","r","i","e","v","e">> }
scada_keywords ==
    { <<"s","e","n","s","o","r">>, <<"p","r","e","s","s","u","r","e">>,
      <<"t","e","m","p","e","r","a","t","u","r","e">>, <<"d","a","t","a">>,
      <<"r","e","a","d","i","n","g">>, <<"c","u","r","r","e","n","t">>,
      <<"e","r","r","o","r"," ","c","o","d","e">> }
CorrelationsWord ==
    <<"c","o","r","r","e","l","a","t","i","o","n","s">>
AndWord ==
    <<"a","n","d">>
ApologyText ==
    <<"The planner could not create a valid plan. Please try a different query.">>
AbortText ==
    <<"Workflow aborted by human.">>
NoSynthesisText ==
    <<"The diagnostic process completed without a final synthesized response.">>
SYNTHESIZE ==
    <<"SYNTHESIZE">>
SummaryFallback ==
    <<"Key findings from diagnostic analysis">>

(***************************************************************************)
(* shared_decision.py: the decision channel, a single module global.       *)
(***************************************************************************)
\* A faulty set_decision: a pending decision is kept, the first write wins.
set_decision_keeps_pending(choice, feedback) ==
    IF human_decision # <<>>
    THEN human_decision
    ELSE <<[choice |-> choice, feedback |-> feedback, timestamp |-> <<>>]>>

\* the value set_decision(choice, feedback) stores
set_decision(choice, feedback) ==
    Some([choice |-> choice, feedback |-> feedback, timestamp |-> None])

get_decision == human_decision

get_decision_choice ==
    IF human_decision # None THEN Some(Value(human_decision).choice) ELSE None

get_decision_feedback ==
    IF human_decision # None THEN Value(human_decision).feedback ELSE None

\* A faulty clear_decision: the decision stays in the channel.
clear_decision_keeps == human_decision

\* the value clear_decision() stores
clear_decision == None

is_awaiting_decision == human_decision = None

has_feedback ==
    IF human_decision # None
    THEN LET feedback == Value(human_decision).feedback
         IN  feedback # None /\ Strip(Value(feedback)) # <<>>
    ELSE FALSE

(***************************************************************************)
(* agents/utils.py: the structured call to the language-model service.     *)
(* An outcome of the service is one of                                     *)
(*   [kind |-> "error"]     the request raised, the status was not 200,    *)
(*                          the content was no JSON of the expected shape  *)
(*   [kind |-> "plan", steps |-> list of texts]                            *)
(*   [kind |-> "response", response |-> text]                              *)
(* The value returned is a pydantic object, Plan or Response; "raised"     *)
(* stands for an exception leaving the function.                           *)
(***************************************************************************)
Plan(steps) == [kind |-> "Plan", steps |-> steps]
Response(text) == [kind |-> "Response", response |-> text]
Raised == [kind |-> "raised"]

call_groq_structured(outcome, model_class) ==
    IF outcome.kind = "error"
    THEN Plan(<<GroqFallbackStep>>)
    ELSE IF model_class = "Plan"
         THEN IF outcome.kind = "plan"
              THEN Plan(outcome.steps)
              ELSE Plan(<<GroqFallbackStep>>)
         ELSE IF outcome.kind = "plan"
              THEN Plan(outcome.steps)
              ELSE Response(outcome.response)

(***************************************************************************)
(* agents/planner_agent.py                                                 *)
(***************************************************************************)
has_valid_prefix(step) ==
    StartsWith(step, SCADA_PREFIX) \/ StartsWith(step, MANUAL_PREFIX)

is_pure_analysis(step) ==
    \E phrase \in pure_analysis_phrases : Contains(Lower(step), phrase)

has_data_gathering_verb(step) ==
    \E verb \in data_gathering_verbs : Contains(Lower(step), verb)

step_is_kept(step) ==
    /\ has_valid_prefix(step)
    /\ ~(is_pure_analysis(step) /\ ~has_data_gathering_verb(step))

\* A faulty Step Validator: no default step.
_validate_steps_no_default(steps) == SelectSeq(steps, step_is_kept)

_validate_steps(steps) ==
    LET validated_steps == SelectSeq(steps, step_is_kept)
    IN  IF validated_steps = <<>> THEN <<DefaultStep>> ELSE validated_steps

create_plan(outcome) ==
    LET plan_obj == call_groq_structured(outcome, "Plan")
    IN  IF plan_obj.kind = "raised"
        THEN [plan |-> <<>>]
        ELSE [plan |-> _validate_steps(plan_obj.steps)]

feedback_fallback_steps(feedback) ==
    <<FeedbackFallbackHead \o Take(feedback, FeedbackExcerptLength) \o Ellipsis>>

create_plan_from_feedback(st, feedback, outcome) ==
    LET plan_obj == call_groq_structured(outcome, "Plan")
    IN  IF plan_obj.kind = "raised"
        THEN [plan |-> feedback_fallback_steps(feedback)]
        ELSE [plan |-> _validate_steps(plan_obj.steps)]

modify_plan_with_feedback(st, feedback, outcome) ==
    LET current_plan == st.plan
        plan_obj == call_groq_structured(outcome, "Plan")
    IN  IF current_plan = <<>>
        THEN create_plan_from_feedback(st, feedback, outcome)
        ELSE IF plan_obj.kind = "raised"
        THEN LET modified_first_step ==
                     current_plan[1] \o IncorporatingHead
                         \o Take(feedback, FeedbackExcerptLength) \o IncorporatingTail
                 fallback_plan == <<modified_first_step>> \o Tail(current_plan)
             IN  [plan |-> Take(fallback_plan, ModifyPlanLimit)]
        ELSE LET validated_steps == _validate_steps(plan_obj.steps)
             IN  [plan |-> Take(validated_steps, ModifyPlanLimit)]

(***************************************************************************)
(* agents/scada_agent.py, agents/manual_agent.py, agents/executor_agent.py *)
(* An outcome of a tool is [kind |-> "ok", text |-> result] or             *)
(* [kind |-> "error", text |-> message] when the tool raised.              *)
(***************************************************************************)
ScadaErrorHead ==
    <<"S","C","A","D","A"," ","e","r","r","o","r",":"," ">>
ManualErrorHead ==
    <<"M","a","n","u","a","l"," ","s","e","a","r","c","h"," ","e","r","r","o","r",":"," ">>

\* A faulty adapter: the failure of the tool leaves no trace in the result.
ScadaAgent_query_silent(outcome) ==
    IF outcome.kind = "ok" THEN outcome.text ELSE <<>>

ScadaAgent_query(outcome) ==
    IF outcome.kind = "ok" THEN outcome.text ELSE ScadaErrorHead \o outcome.text

ManualAgent_search(outcome) ==
    IF outcome.kind = "ok" THEN outcome.text ELSE ManualErrorHead \o outcome.text

\* The tool agent execute_step delegates a step to.
tool_used(current_step_task) ==
    IF StartsWith(current_step_task, SCADA_PREFIX) THEN "SCADA"
    ELSE IF StartsWith(current_step_task, MANUAL_PREFIX) THEN "MANUAL"
    ELSE IF \E word \in scada_keywords : Contains(Lower(current_step_task), word)
         THEN "SCADA"
         ELSE "MANUAL"

NoStepsPair ==
    << <<"No steps in plan">>, <<"Execution completed or plan is empty">> >>

\* A faulty choice of the step: the last step of the plan.
current_step_last(plan) == plan[Len(plan)]

\* The step execute_step runs.
current_step(plan) == plan[1]

execute_step(st, outcome) ==
    IF st.plan = <<>>
    THEN [past_steps |-> <<NoStepsPair>>]
    ELSE LET current_step_task == current_step(st.plan)
             result == IF tool_used(current_step_task) = "SCADA"
                       THEN ScadaAgent_query(outcome)
                       ELSE ManualAgent_search(outcome)
         IN  [past_steps |-> << <<current_step_task, result>> >>]

(***************************************************************************)
(* agents/replan_agent.py: decide_next_action                              *)
(***************************************************************************)
Space ==
    <<" ">>

\* A faulty Duplicate Detector: the results are compared as they are.
force_synthesis_exact(past_steps) ==
    /\ Len(past_steps) >= 2
    /\ past_steps[Len(past_steps)][2] = past_steps[Len(past_steps) - 1][2]

\* The Duplicate Detector: the two most recent results compared.
force_synthesis(past_steps) ==
    /\ Len(past_steps) >= 2
    /\ LET last_result == Take(past_steps[Len(past_steps)][2], ResultPrefixLength)
           previous_result == Take(past_steps[Len(past_steps) - 1][2], ResultPrefixLength)
       IN  Strip(Lower(last_result)) = Strip(Lower(previous_result))

\* The consolidation test of the soft limit.
looks_consolidated(remaining_steps) ==
    \/ \E i \in 1..Len(remaining_steps) : Len(remaining_steps[i]) > LongStepLength
    \/ Contains(Lower(Join(remaining_steps, Space)), CorrelationsWord)
    \/ Contains(Lower(Join(remaining_steps, Space)), AndWord)

\* A faulty Step Budget Enforcer: only the hard limit rejects.
too_many_steps_hard_only(past_steps, remaining_steps) ==
    Len(past_steps) + Len(remaining_steps) > HardStepLimit

\* The Step Budget Enforcer: TRUE when the proposal is rejected.
too_many_steps(past_steps, remaining_steps) ==
    LET total_steps == Len(past_steps) + Len(remaining_steps)
    IN  IF total_steps > HardStepLimit THEN TRUE
        ELSE IF total_steps > SoftStepLimit THEN ~looks_consolidated(remaining_steps)
        ELSE FALSE

\* Lines 322-326: the replanner's service is called.
oracle_consulted(st) == ~force_synthesis(st.past_steps)

\* A faulty replanner: a duplicate result sets ready_for_synthesis.
decide_next_action_auto_synthesis(st, outcome) ==
    IF force_synthesis(st.past_steps)
    THEN [ready_for_synthesis |-> TRUE]
    ELSE LET output == call_groq_structured(outcome, "Act")
         IN  IF output.kind = "Response"
             THEN IF output.response = SYNTHESIZE
                  THEN [synthesis_recommended |-> TRUE]
                  ELSE [response |-> output.response]
             ELSE IF output.steps = <<>>
             THEN [ready_for_synthesis |-> TRUE]
             ELSE IF too_many_steps(st.past_steps, output.steps)
             THEN [too_many_steps_warning |-> TRUE]
             ELSE [plan |-> output.steps]

\* A faulty replanner: the answer SYNTHESIZE sets ready_for_synthesis.
decide_next_action_synthesizes_now(st, outcome) ==
    IF force_synthesis(st.past_steps)
    THEN [duplicate_warning |-> TRUE]
    ELSE LET output == call_groq_structured(outcome, "Act")
         IN  IF output.kind = "Response"
             THEN IF output.response = SYNTHESIZE
                  THEN [ready_for_synthesis |-> TRUE]
                  ELSE [response |-> output.response]
             ELSE IF output.steps = <<>>
             THEN [ready_for_synthesis |-> TRUE]
             ELSE IF too_many_steps(st.past_steps, output.steps)
             THEN [too_many_steps_warning |-> TRUE]
             ELSE [plan |-> output.steps]

\* A faulty replanner: a rejected proposal ends the diagnosis.
decide_next_action_rejection_synthesizes(st, outcome) ==
    IF force_synthesis(st.past_steps)
    THEN [duplicate_warning |-> TRUE]
    ELSE LET output == call_groq_structured(outcome, "Act")
         IN  IF output.kind = "Response"
             THEN IF output.response = SYNTHESIZE
                  THEN [synthesis_recommended |-> TRUE]
                  ELSE [response |-> output.response]
             ELSE IF output.steps = <<>>
             THEN [ready_for_synthesis |-> TRUE]
             ELSE IF too_many_steps(st.past_steps, output.steps)
             THEN [ready_for_synthesis |-> TRUE]
             ELSE [plan |-> output.steps]

decide_next_action(st, outcome) ==
    IF force_synthesis(st.past_steps)
    THEN [duplicate_warning |-> TRUE]
    ELSE LET output == call_groq_structured(outcome, "Act")
         IN  IF output.kind = "raised"
             THEN [replan_failed_warning |-> TRUE]
             ELSE IF output.kind = "Response"
             THEN IF output.response = SYNTHESIZE
                  THEN [synthesis_recommended |-> TRUE]
                  ELSE [response |-> output.response]
             ELSE IF output.steps = <<>>
             THEN [ready_for_synthesis |-> TRUE]
             ELSE IF too_many_steps(st.past_steps, output.steps)
             THEN [too_many_steps_warning |-> TRUE]
             ELSE [plan |-> output.steps]

(***************************************************************************)
(* agents/synthesizer_agent.py: synthesize_response                        *)
(* An outcome of the service is [kind |-> "ok", content |-> text],         *)
(* [kind |-> "http_error"] or [kind |-> "exception"].                      *)
(***************************************************************************)
synthesize_response(st, outcome) ==
    LET n == Str(Len(st.past_steps))
    IN  IF outcome.kind = "ok"
        THEN [response |-> outcome.content]
        ELSE IF outcome.kind = "http_error"
        THEN [response |-> <<"DIAGNOSTIC SUMMARY Question: ">> \o st.input
                             \o <<" Based on ">> \o n
                             \o <<" completed diagnostic steps, the system has gathered relevant information. An error occurred during final synthesis.">>]
        ELSE [response |-> <<"DIAGNOSTIC SUMMARY Question: ">> \o st.input
                             \o <<" Completed ">> \o n
                             \o <<" diagnostic steps successfully. An unexpected error prevented full synthesis.">>]

(***************************************************************************)
(* agents/orchestrator.py: pure parts                                      *)
(***************************************************************************)
\* A faulty review: feedback of blanks counts as feedback.
resolve_decision_unstripped(decision) ==
    LET choice == decision.choice
        feedback == decision.feedback
        given == feedback # None /\ Value(feedback) # <<>>
        with_feedback(action) ==
            IF given THEN [action |-> action, feedback |-> Value(feedback)]
                     ELSE [action |-> action]
    IN  IF choice \in {"c", "continue"} THEN with_feedback("continue")
        ELSE IF choice \in {"e", "edit"}
             THEN IF given THEN [action |-> "edit", feedback |-> Value(feedback)]
                           ELSE [action |-> "continue"]
        ELSE IF choice \in {"s", "synthesize"} THEN with_feedback("synthesize")
        ELSE IF choice \in {"q", "quit"} THEN with_feedback("quit")
        ELSE with_feedback("continue")

\* Lines 123-173 of _human_in_the_loop_review: the dict returned for a
\* decision read from the channel.
resolve_decision(decision) ==
    LET choice == decision.choice
        feedback == decision.feedback
        given == feedback # None /\ Value(feedback) # <<>>
                     /\ Strip(Value(feedback)) # <<>>
        with_feedback(action) ==
            IF given THEN [action |-> action, feedback |-> Value(feedback)]
                     ELSE [action |-> action]
    IN  IF choice \in {"c", "continue"} THEN with_feedback("continue")
        ELSE IF choice \in {"e", "edit"}
             THEN IF given THEN [action |-> "edit", feedback |-> Value(feedback)]
                           ELSE [action |-> "continue"]
        ELSE IF choice \in {"s", "synthesize"} THEN with_feedback("synthesize")
        ELSE IF choice \in {"q", "quit"} THEN with_feedback("quit")
        ELSE with_feedback("continue")

\* A faulty default: the wait that times out aborts the workflow.
timeout_decision_quits == [action |-> "quit"]

\* Line 185: the dict returned when the wait timed out.
timeout_decision == [action |-> "continue"]

\* human_decision.get("feedback", "").strip()
feedback_text_of(decision) == Strip(DictGet(decision, "feedback", <<>>))

RECURSIVE context_parts(_)
context_parts(turns) ==
    IF turns = <<>> THEN <<>>
    ELSE << <<"Query: ">> \o Head(turns).user_query,
            <<"Key Findings: ">> \o Head(turns).context_summary >>
         \o context_parts(Tail(turns))

\* A faulty window: every recorded turn goes into the context.
recent_turns_unbounded(history) == history

\* Line 52: self.conversation_history[-3:]
recent_turns(history) ==
    SubSeq(history,
           IF Len(history) > RecentTurns THEN Len(history) - RecentTurns + 1 ELSE 1,
           Len(history))

_get_conversation_context(history, user_query) ==
    IF history = <<>> THEN <<>>
    ELSE <<"Previous conversation context: ">>
             \o Join(context_parts(recent_turns(history)), <<"\n">>)
             \o <<" Current query: ">> \o user_query

\* A faulty numbering: every run is the first turn.
initial_state_first_turn(initial_query, history) ==
    [ input |-> initial_query,
      plan |-> <<>>,
      past_steps |-> <<>>,
      response |-> <<>>,
      ready_for_synthesis |-> FALSE,
      current_turn_context |-> _get_conversation_context(history, initial_query),
      turn_number |-> 1,
      human_feedback |-> None ]

\* Lines 191-207: the state a run starts from.
initial_state(initial_query, history) ==
    [ input |-> initial_query,
      plan |-> <<>>,
      past_steps |-> <<>>,
      response |-> <<>>,
      ready_for_synthesis |-> FALSE,
      current_turn_context |-> _get_conversation_context(history, initial_query),
      turn_number |-> Len(history) + 1,
      human_feedback |-> None ]

\* plan[1:]
remove_executed_step(plan) == IF plan = <<>> THEN <<>> ELSE Tail(plan)

\* A faulty record: the executed step is put in front.
record_step_in_front(past_steps, executed) == executed \o past_steps

\* past_steps + executor_output["past_steps"]
record_step(past_steps, executed) == past_steps \o executed

\* Lines 236-246: the Executor step of one iteration.
after_executor(st, outcome) ==
    LET executor_output == execute_step(st, outcome)
    IN  [st EXCEPT
           !.past_steps = record_step(st.past_steps,
                                      DictGet(executor_output, "past_steps", <<>>)),
           !.plan = remove_executed_step(st.plan)]

\* Lines 262-278: the plan after the replanner's output.
merge_plan(existing_steps, new_steps) ==
    LET is_new(step) == ~InList(step, existing_steps)
        unique_new_steps == SelectSeq(new_steps, is_new)
    IN  IF unique_new_steps # <<>> THEN existing_steps \o unique_new_steps
                                   ELSE existing_steps

\* A faulty replanning stage: a response of the replanner is not stored.
after_replan_drops_response(st, out) ==
    LET s1 == [st EXCEPT !.human_feedback = None]
        s2 == IF "ready_for_synthesis" \in DOMAIN out
              THEN [s1 EXCEPT !.ready_for_synthesis = out.ready_for_synthesis]
              ELSE s1
    IN  IF "plan" \in DOMAIN out /\ out.plan # <<>>
        THEN [s2 EXCEPT !.plan = merge_plan(s2.plan, out.plan)]
        ELSE IF "plan" \in DOMAIN out /\ out.plan = <<>>
                  /\ ~s2.ready_for_synthesis /\ s2.response = <<>>
        THEN [s2 EXCEPT !.ready_for_synthesis = TRUE]
        ELSE s2

\* Lines 253-278: the state after the replanner's output.
after_replan(st, out) ==
    LET s1 == [st EXCEPT !.human_feedback = None]
        s2 == IF "ready_for_synthesis" \in DOMAIN out
              THEN [s1 EXCEPT !.ready_for_synthesis = out.ready_for_synthesis]
              ELSE s1
        s3 == IF "response" \in DOMAIN out
              THEN [s2 EXCEPT !.response = out.response]
              ELSE s2
    IN  IF "plan" \in DOMAIN out /\ out.plan # <<>>
        THEN [s3 EXCEPT !.plan = merge_plan(s3.plan, out.plan)]
        ELSE IF "plan" \in DOMAIN out /\ out.plan = <<>>
                  /\ ~s3.ready_for_synthesis /\ s3.response = <<>>
        THEN [s3 EXCEPT !.ready_for_synthesis = TRUE]
        ELSE s3

\* Lines 327-342 and 372-387: the Edit decision.
apply_edit(st, decision, outcome) ==
    LET feedback_text == feedback_text_of(decision)
        new_plan == DictGet(create_plan_from_feedback(st, feedback_text, outcome),
                            "plan", <<>>)
    IN  IF feedback_text # <<>> /\ new_plan # <<>>
        THEN [st EXCEPT !.plan = new_plan]
        ELSE st

\* A faulty Continue: the plan is modified also without feedback.
apply_continue_always_modifies(st, decision, outcome) ==
    LET feedback_text == feedback_text_of(decision)
        modified_plan == DictGet(modify_plan_with_feedback(st, feedback_text, outcome),
                                 "plan", <<>>)
    IN  IF modified_plan # <<>>
        THEN [st EXCEPT !.plan = modified_plan]
        ELSE st

\* Lines 343-358 and 395-410: the Continue decision.
apply_continue(st, decision, outcome) ==
    LET feedback_text == feedback_text_of(decision)
        modified_plan == DictGet(modify_plan_with_feedback(st, feedback_text, outcome),
                                 "plan", <<>>)
    IN  IF feedback_text # <<>> /\ modified_plan # <<>>
        THEN [st EXCEPT !.plan = modified_plan]
        ELSE st

\* A faulty Synthesize: the steps left in the plan are discarded.
apply_synthesize_drops_plan(st, decision) ==
    [st EXCEPT !.ready_for_synthesis = TRUE, !.plan = <<>>]

\* Lines 320-326 and 388-394: the Synthesize decision.
apply_synthesize(st, decision) ==
    LET feedback_text == feedback_text_of(decision)
    IN  [st EXCEPT !.ready_for_synthesis = TRUE,
                   !.human_feedback = IF feedback_text # <<>>
                                      THEN Some(feedback_text) ELSE @]

\* A faulty Quit: the workflow goes on to the synthesizer.
apply_quit_synthesizes(st) == [st EXCEPT !.ready_for_synthesis = TRUE]

\* Lines 316-319 and 369-371: the Quit decision.
apply_quit(st) == [st EXCEPT !.response = AbortText]

\* Lines 329 and 345: the decisions that call the planner's service.
editor_called(decision) ==
    decision.action \in {"edit", "continue"} /\ feedback_text_of(decision) # <<>>

\* Lines 315-358 (in the loop) and 369-410 (after the loop).
apply_decision(st, decision, outcome) ==
    IF decision.action = "quit" THEN apply_quit(st)
    ELSE IF decision.action = "synthesize" THEN apply_synthesize(st, decision)
    ELSE IF decision.action = "edit" THEN apply_edit(st, decision, outcome)
    ELSE IF decision.action = "continue" THEN apply_continue(st, decision, outcome)
    ELSE st

\* A faulty condition: a response that is already there is overwritten.
synthesis_due_whenever_ready(st) == st.ready_for_synthesis

\* A faulty condition: the synthesizer is called whenever there is no
\* response, ready for synthesis or not.
synthesis_due_on_empty_response(st) == st.response = <<>>

\* Line 413: the synthesizer is called.
synthesis_due(st) == st.ready_for_synthesis /\ st.response = <<>>

\* A faulty Synthesizer step: no default text for a run without synthesis.
after_synthesizer_without_default(st, outcome) ==
    IF synthesis_due(st)
    THEN [st EXCEPT !.response = DictGet(synthesize_response(st, outcome), "response",
                                         <<"An error occurred during final synthesis.">>)]
    ELSE st

\* Lines 412-420: the Synthesizer step.
after_synthesizer(st, outcome) ==
    IF synthesis_due(st)
    THEN [st EXCEPT !.response = DictGet(synthesize_response(st, outcome), "response",
                                         <<"An error occurred during final synthesis.">>)]
    ELSE IF st.response = <<>>
    THEN [st EXCEPT !.response = NoSynthesisText]
    ELSE st

\* _generate_context_summary
_generate_context_summary(outcome) ==
    IF outcome.kind = "ok" THEN outcome.content ELSE SummaryFallback

\* A faulty record: the steps left in the plan are stored as the steps done.
conversation_turn_of_plan(st, initial_query, summary_outcome) ==
    [ user_query |-> initial_query,
      diagnostic_steps |-> st.plan,
      final_response |-> st.response,
      context_summary |-> _generate_context_summary(summary_outcome) ]

\* Lines 423-429: the turn recorded for a run.
conversation_turn(st, initial_query, summary_outcome) ==
    [ user_query |-> initial_query,
      diagnostic_steps |-> st.past_steps,
      final_response |-> st.response,
      context_summary |-> _generate_context_summary(summary_outcome) ]

\* A faulty memory: the turn is not kept.
_add_conversation_turn_dropped(history, turn) == history

\* A faulty memory: only the latest turn is kept.
_add_conversation_turn_only_latest(history, turn) == <<turn>>

\* Lines 42-44
_add_conversation_turn(history, turn) == Append(history, turn)

(***************************************************************************)
(* Inputs: the queries, the outcomes of the external services and tools,   *)
(* and the decisions a human writes.                                       *)
(***************************************************************************)
StepA ==
    <<"S","C","A","D","A",":"," ","G","e","t"," ","p">>
StepB ==
    <<"M","A","N","U","A","L",":"," ","F","i","n","d"," ","q">>
StepC ==
    <<"S","C","A","D","A",":"," ","C","h","e","c","k"," ","r"," ","a","n","d"," ","s">>
StepX ==
    <<"A","n","a","l","y","z","e"," ","d","a","t","a">>
StepY ==
    <<"S","C","A","D","A",":"," ","D","e","t","e","r","m","i","n","e"," ",
      "r","o","o","t"," ","c","a","u","s","e">>
ResultR1 ==
    <<"P"," ","i","s"," ","5">>
ResultR1b ==
    <<" ","p"," ","I","S"," ","5"," ">>
ErrorMessage ==
    <<"d","b">>
FeedbackText ==
    <<"m","o","r","e"," ","p">>
FeedbackBlank ==
    <<" "," ">>

Queries == { <<"What is the pressure in March?">> }

PlannerOutcomes ==
    { [kind |-> "error"],
      [kind |-> "plan", steps |-> <<StepX, StepA, StepY, StepB>>] }

ToolOutcomes ==
    { [kind |-> "ok", text |-> ResultR1],
      [kind |-> "error", text |-> ErrorMessage] }

ReplannerOutcomes ==
    { [kind |-> "error"],
      [kind |-> "response", response |-> SYNTHESIZE],
      [kind |-> "response", response |-> <<"Direct answer">>],
      [kind |-> "plan", steps |-> <<>>],
      [kind |-> "plan", steps |-> <<StepC>>] }

EditorOutcomes ==
    { [kind |-> "error"],
      [kind |-> "plan", steps |-> <<StepA, StepB, StepC, StepA>>] }

SynthesizerOutcomes ==
    { [kind |-> "ok", content |-> <<"Synthesized answer">>],
      [kind |-> "ok", content |-> <<>>],
      [kind |-> "http_error"] }

SummaryOutcomes ==
    { [kind |-> "ok", content |-> <<"Summary of findings">>],
      [kind |-> "error"] }

\* The inputs of Spec: one outcome of the summary service.
SummaryOutcomesSpec ==
    { [kind |-> "ok", content |-> <<"Summary of findings">>] }

\* The decisions a human writes: the arguments of set_decision.
Decisions ==
    { [choice |-> "c", feedback |-> None],
      [choice |-> "c", feedback |-> Some(FeedbackText)],
      [choice |-> "e", feedback |-> Some(FeedbackText)],
      [choice |-> "s", feedback |-> None],
      [choice |-> "q", feedback |-> None] }

\* The inputs of the full model.
FullInputs ==
    [ queries |-> Queries, planner |-> PlannerOutcomes, tool |-> ToolOutcomes,
      replanner |-> ReplannerOutcomes, editor |-> EditorOutcomes,
      synthesizer |-> SynthesizerOutcomes, summary |-> SummaryOutcomesSpec,
      decisions |-> Decisions, max_writes |-> MaxWrites ]

(***************************************************************************)
(* The workflow tasks.  A task is one call of run_diagnostic_workflow; the *)
(* tasks of one process share the orchestrator and the decision channel    *)
(* and run on one event loop: a task runs alone from one await to the next *)
(* and the only await of the workflow is the sleep of the review's poll    *)
(* loop.                                                                   *)
(***************************************************************************)
Tasks == {1, 2}

idle_state == initial_state(<<>>, <<>>)

closed_review ==
    [st |-> "closed", elapsed_time |-> 0, result |-> None, timed_out |-> FALSE]

open_review ==
    [st |-> "poll", elapsed_time |-> 0, result |-> None, timed_out |-> FALSE]

no_replan_output == [none |-> TRUE]

\* The history variable at the start:
\*   writes      calls of set_decision so far
\*   chan_wid    the number of the write whose decision is in the channel, or 0
\*   applied     the numbers of the writes the reviews have consumed, in order
\*   written     per task, the decision last written while its review slept
\*   last_call   the last call of the channel's interface and its arguments
\*   planner_ok  per task, whether a call of the planner's service succeeded
\*   planner     per task, the outcome of the service in create_plan
\*   tool        per task, the outcome of the tool in the last executed step
\*   replanner   per task, the outcome of the service in the last replanning
\*               stage, or None when the service was not called
\*   synthesized per task, the texts synthesize_response has returned
\*   accepted    per task, the number of writes made before submit_query
\*               accepted the query of the task
no_observations ==
    [ writes |-> 0,
      chan_wid |-> 0,
      applied |-> <<>>,
      written |-> [t \in Tasks |-> None],
      last_call |-> None,
      planner_ok |-> [t \in Tasks |-> FALSE],
      planner |-> [t \in Tasks |-> None],
      tool |-> [t \in Tasks |-> None],
      replanner |-> [t \in Tasks |-> None],
      synthesized |-> [t \in Tasks |-> <<>>],
      accepted |-> [t \in Tasks |-> 0] ]

\* The state of api_server.system_state after the start of the server:
\* the fields the handlers of the queries and decisions read and write
\* (terminal_output and current_iteration only feed the display).
initial_system_state ==
    [ is_processing |-> FALSE,
      current_query |-> None,
      awaiting_human_input |-> FALSE,
      human_decision_response |-> None,
      workflow_history |-> <<>> ]

Suspended(t) ==
    \/ pc[t] \in {"absent", "scheduled", "idle", "returned", "finished"}
    \/ review[t].st = "sleep"

\* The event loop can run task t: no other task is between two awaits.
CanRun(t) == \A u \in Tasks \ {t} : Suspended(u)

\* The event loop can run another coroutine (a writer of the channel).
LoopFree == \A u \in Tasks : Suspended(u)

InReview(t) == pc[t] \in {"review", "final_review"}

Init ==
    /\ system_state = initial_system_state
    /\ human_decision = None
    /\ conversation_history = <<>>
    /\ state = [t \in Tasks |-> idle_state]
    /\ pc = [t \in Tasks |-> IF t = 1 THEN "idle" ELSE "absent"]
    /\ current_iteration = [t \in Tasks |-> 0]
    /\ replan_output = [t \in Tasks |-> no_replan_output]
    /\ review = [t \in Tasks |-> closed_review]
    /\ obs = no_observations

(***************************************************************************)
(* The channel's writers.                                                  *)
(***************************************************************************)
\* shared_decision.set_decision(choice, feedback), by any caller while the
\* event loop is free and a workflow is pending or running.  obs gives the
\* write an identity and remembers it for the reviews that are waiting.
SetDecision(in) ==
    /\ LoopFree
    /\ \E t \in Tasks : pc[t] \notin {"absent", "returned"}
    /\ obs.writes < in.max_writes
    /\ \E d \in in.decisions :
         /\ human_decision' = set_decision(d.choice, d.feedback)
         /\ obs' = [obs EXCEPT
                      !.writes = @ + 1,
                      !.chan_wid = obs.writes + 1,
                      !.last_call = Some([op |-> "set", choice |-> d.choice,
                                          feedback |-> d.feedback]),
                      !.written = [t \in Tasks |->
                                     IF InReview(t) /\ review[t].st = "sleep"
                                     THEN set_decision(d.choice, d.feedback)
                                     ELSE obs.written[t]]]
    /\ UNCHANGED <<conversation_history, state, pc, current_iteration,
                   replan_output, review>>
    /\ UNCHANGED system_state

\* shared_decision.clear_decision(), by a caller other than the review.
ClearDecision ==
    /\ LoopFree
    /\ human_decision # None
    /\ human_decision' = clear_decision
    /\ obs' = [obs EXCEPT !.chan_wid = IF clear_decision = None THEN 0 ELSE @,
                          !.last_call = Some([op |-> "clear"]),
                          !.written = [t \in Tasks |-> None]]
    /\ UNCHANGED <<conversation_history, state, pc, current_iteration,
                   replan_output, review>>
    /\ UNCHANGED system_state

\* api_server.get_human_decision_response: a reader of the channel.
GetDecisionResponse ==
    /\ LoopFree
    /\ \E t \in Tasks : pc[t] \notin {"absent", "returned"}
    /\ IF obs.last_call = None THEN TRUE ELSE Value(obs.last_call).op # "get"
    /\ obs' = [obs EXCEPT !.last_call = Some([op |-> "get", returned |-> get_decision])]
    /\ UNCHANGED <<human_decision, conversation_history, state, pc,
                   current_iteration, replan_output, review>>
    /\ UNCHANGED system_state

(***************************************************************************)
(* run_diagnostic_workflow, one action per stage.                          *)
(***************************************************************************)
\* Lines 191-213
StartRun(t, in) ==
    /\ pc[t] = "idle"
    /\ CanRun(t)
    /\ \E initial_query \in in.queries :
         state' = [state EXCEPT ![t] = initial_state(initial_query, conversation_history)]
    /\ pc' = [pc EXCEPT ![t] = "planner"]
    /\ UNCHANGED <<human_decision, conversation_history, current_iteration,
                   replan_output, review, obs>>
    /\ UNCHANGED system_state

\* Lines 215-226
PlannerStep(t, in) ==
    /\ pc[t] = "planner"
    /\ \E outcome \in in.planner :
         LET planner_output == create_plan(outcome)
             plan == DictGet(planner_output, "plan", <<>>)
         IN  /\ IF plan = <<>>
                THEN /\ state' = [state EXCEPT ![t].plan = plan,
                                               ![t].response = ApologyText]
                     /\ pc' = [pc EXCEPT ![t] = "returned"]
                ELSE /\ state' = [state EXCEPT ![t].plan = plan]
                     /\ pc' = [pc EXCEPT ![t] = "loop_test"]
             /\ obs' = [obs EXCEPT !.planner_ok[t] = outcome.kind # "error",
                                   !.planner[t] = Some(outcome)]
    /\ current_iteration' = [current_iteration EXCEPT ![t] = 0]
    /\ UNCHANGED <<human_decision, conversation_history, replan_output, review>>
    /\ UNCHANGED system_state

\* A faulty loop condition: no cap on the iterations.
loop_continues_uncapped(st, iteration) ==
    ~st.ready_for_synthesis /\ st.response = <<>>

\* Line 227: the loop's condition.
loop_continues(st, iteration) ==
    ~st.ready_for_synthesis /\ st.response = <<>> /\ iteration < max_iterations

\* A faulty loop: an empty plan does not set ready_for_synthesis.
LoopTest_unforced(t) ==
    /\ pc[t] = "loop_test"
    /\ IF loop_continues(state[t], current_iteration[t])
       THEN /\ current_iteration' = [current_iteration EXCEPT ![t] = @ + 1]
            /\ pc' = [pc EXCEPT ![t] = IF state[t].plan # <<>> THEN "executor"
                                                               ELSE "replan"]
            /\ UNCHANGED state
       ELSE /\ pc' = [pc EXCEPT ![t] = "post_loop"]
            /\ UNCHANGED <<current_iteration, state>>
    /\ UNCHANGED <<human_decision, conversation_history, replan_output, review, obs>>
    /\ UNCHANGED system_state

\* Lines 227-235
LoopTest(t) ==
    /\ pc[t] = "loop_test"
    /\ IF loop_continues(state[t], current_iteration[t])
       THEN /\ current_iteration' = [current_iteration EXCEPT ![t] = @ + 1]
            /\ state' = [state EXCEPT ![t].ready_for_synthesis =
                                          IF state[t].plan = <<>> THEN TRUE ELSE @]
            /\ pc' = [pc EXCEPT ![t] = IF state[t].plan # <<>> THEN "executor"
                                                               ELSE "replan"]
       ELSE /\ pc' = [pc EXCEPT ![t] = "post_loop"]
            /\ UNCHANGED <<current_iteration, state>>
    /\ UNCHANGED <<human_decision, conversation_history, replan_output, review, obs>>
    /\ UNCHANGED system_state

\* Lines 236-246
ExecutorStep(t, in) ==
    /\ pc[t] = "executor"
    /\ \E outcome \in in.tool :
         /\ state' = [state EXCEPT ![t] = after_executor(state[t], outcome)]
         /\ obs' = [obs EXCEPT !.tool[t] = Some(outcome)]
    /\ pc' = [pc EXCEPT ![t] = "replan"]
    /\ UNCHANGED <<human_decision, conversation_history, current_iteration,
                   replan_output, review>>
    /\ UNCHANGED system_state

\* A faulty replanning stage: the review is opened only on a warning or a
\* recommendation of the replanner.
ReplanStep_reviews_on_warning(t, in) ==
    /\ pc[t] = "replan"
    /\ \E outcome \in in.replanner :
         LET out == decide_next_action(state[t], outcome)
             st == after_replan(state[t], out)
             ask == /\ ~st.ready_for_synthesis /\ st.response = <<>>
                    /\ DOMAIN out \cap {"duplicate_warning", "too_many_steps_warning",
                                        "replan_failed_warning",
                                        "synthesis_recommended"} # {}
         IN  /\ replan_output' = [replan_output EXCEPT ![t] = out]
             /\ state' = [state EXCEPT ![t] = st]
             /\ pc' = [pc EXCEPT ![t] = IF ask THEN "review" ELSE "loop_test"]
             /\ review' = [review EXCEPT ![t] = IF ask THEN open_review ELSE @]
             /\ obs' = [obs EXCEPT !.written[t] = None,
                                   !.replanner[t] = IF oracle_consulted(state[t])
                                                    THEN Some(outcome) ELSE None]
    /\ UNCHANGED <<human_decision, conversation_history, current_iteration>>
    /\ UNCHANGED system_state

\* Lines 248-307
ReplanStep(t, in) ==
    /\ pc[t] = "replan"
    /\ \E outcome \in in.replanner :
         LET out == decide_next_action(state[t], outcome)
             st == after_replan(state[t], out)
             ask == ~st.ready_for_synthesis /\ st.response = <<>>
         IN  /\ replan_output' = [replan_output EXCEPT ![t] = out]
             /\ state' = [state EXCEPT ![t] = st]
             /\ pc' = [pc EXCEPT ![t] = IF ask THEN "review" ELSE "loop_test"]
             /\ review' = [review EXCEPT ![t] = IF ask THEN open_review ELSE @]
             /\ obs' = [obs EXCEPT !.written[t] = None,
                                   !.replanner[t] = IF oracle_consulted(state[t])
                                                    THEN Some(outcome) ELSE None]
    /\ UNCHANGED <<human_decision, conversation_history, current_iteration>>
    /\ UNCHANGED system_state

\* Lines 123-173: one poll of the channel by the review of task t, whose
\* elapsed time is elapsed_time: a decision is read, cleared and returned;
\* without one the review sleeps.
poll_channel(t, elapsed_time) ==
    LET decision == get_decision
    IN  IF decision # None
        THEN /\ human_decision' = clear_decision
             /\ review' = [review EXCEPT ![t].st = "returned",
                             ![t].elapsed_time = elapsed_time,
                             ![t].result = Some(resolve_decision(Value(decision)))]
             /\ obs' = [obs EXCEPT
                          !.chan_wid = IF clear_decision = None THEN 0 ELSE @,
                          !.last_call = Some([op |-> "clear"]),
                          !.applied = Append(@, obs.chan_wid)]
        ELSE /\ review' = [review EXCEPT ![t].st = "sleep",
                                         ![t].elapsed_time = elapsed_time]
             /\ UNCHANGED <<human_decision, obs>>

\* Lines 119-178: the first turn of the poll loop.
Poll(t) ==
    /\ InReview(t)
    /\ review[t].st = "poll"
    /\ poll_channel(t, review[t].elapsed_time)
    /\ UNCHANGED <<conversation_history, state, pc, current_iteration, replan_output>>
    /\ UNCHANGED system_state

\* Lines 180-185 and 119-178: the sleep ends and the time is counted; the
\* loop polls again, or the time is up and the review returns the default.
Wake(t) ==
    /\ InReview(t)
    /\ review[t].st = "sleep"
    /\ CanRun(t)
    /\ LET elapsed_time == review[t].elapsed_time + 1
       IN  IF elapsed_time < MaxPolls
           THEN poll_channel(t, elapsed_time)
           ELSE /\ review' = [review EXCEPT ![t].st = "returned",
                                            ![t].elapsed_time = elapsed_time,
                                            ![t].result = Some(timeout_decision),
                                            ![t].timed_out = TRUE]
                /\ UNCHANGED <<human_decision, obs>>
    /\ UNCHANGED <<conversation_history, state, pc, current_iteration, replan_output>>
    /\ UNCHANGED system_state

\* Lines 309-358
ApplyDecision(t, in) ==
    /\ pc[t] = "review"
    /\ review[t].st = "returned"
    /\ LET decision == Value(review[t].result)
       IN  /\ \E outcome \in in.editor :
                /\ state' = [state EXCEPT ![t] = apply_decision(state[t], decision, outcome)]
                /\ obs' = [obs EXCEPT !.planner_ok[t] =
                                          @ \/ (editor_called(decision)
                                                  /\ outcome.kind # "error"),
                                      !.replanner[t] = None]
           /\ pc' = [pc EXCEPT ![t] = IF decision.action = "quit" THEN "post_loop"
                                                                ELSE "loop_test"]
    /\ review' = [review EXCEPT ![t] = closed_review]
    /\ replan_output' = [replan_output EXCEPT ![t] = no_replan_output]
    /\ UNCHANGED <<human_decision, conversation_history, current_iteration>>
    /\ UNCHANGED system_state

\* Lines 360-367
PostLoop(t) ==
    /\ pc[t] = "post_loop"
    /\ LET ask == /\ ~state[t].ready_for_synthesis
                  /\ state[t].response = <<>>
                  /\ current_iteration[t] > 0
       IN  /\ pc' = [pc EXCEPT ![t] = IF ask THEN "final_review" ELSE "synthesizer"]
           /\ review' = [review EXCEPT ![t] = IF ask THEN open_review ELSE @]
           /\ obs' = [obs EXCEPT !.written[t] = None]
    /\ UNCHANGED <<human_decision, conversation_history, state, current_iteration,
                   replan_output>>
    /\ UNCHANGED system_state

\* Lines 369-410
ApplyFinalDecision(t, in) ==
    /\ pc[t] = "final_review"
    /\ review[t].st = "returned"
    /\ LET decision == Value(review[t].result)
       IN  \E outcome \in in.editor :
             /\ state' = [state EXCEPT ![t] = apply_decision(state[t], decision, outcome)]
             /\ obs' = [obs EXCEPT !.planner_ok[t] =
                                       @ \/ (editor_called(decision)
                                               /\ outcome.kind # "error")]
    /\ pc' = [pc EXCEPT ![t] = "synthesizer"]
    /\ review' = [review EXCEPT ![t] = closed_review]
    /\ UNCHANGED <<human_decision, conversation_history, current_iteration,
                   replan_output>>
    /\ UNCHANGED system_state

\* Lines 412-420
SynthesizerStep(t, in) ==
    /\ pc[t] = "synthesizer"
    /\ \E outcome \in in.synthesizer :
         /\ state' = [state EXCEPT ![t] = after_synthesizer(state[t], outcome)]
         /\ obs' = [obs EXCEPT !.synthesized[t] =
                                   IF synthesis_due(state[t])
                                   THEN Append(@, synthesize_response(state[t], outcome).response)
                                   ELSE @]
    /\ pc' = [pc EXCEPT ![t] = "record"]
    /\ UNCHANGED <<human_decision, conversation_history, current_iteration,
                   replan_output, review>>
    /\ UNCHANGED system_state

\* Lines 422-435
RecordTurn(t, in) ==
    /\ pc[t] = "record"
    /\ \E outcome \in in.summary :
         conversation_history' =
             _add_conversation_turn(conversation_history,
                                    conversation_turn(state[t], state[t].input, outcome))
    /\ pc' = [pc EXCEPT ![t] = "returned"]
    /\ UNCHANGED <<human_decision, state, current_iteration, replan_output,
                   review, obs>>
    /\ UNCHANGED system_state

Run(t, in) ==
    \/ StartRun(t, in)
    \/ PlannerStep(t, in)
    \/ LoopTest(t)
    \/ ExecutorStep(t, in)
    \/ ReplanStep(t, in)
    \/ Poll(t)
    \/ Wake(t)
    \/ ApplyDecision(t, in)
    \/ PostLoop(t)
    \/ ApplyFinalDecision(t, in)
    \/ SynthesizerStep(t, in)
    \/ RecordTurn(t, in)

(***************************************************************************)
(* Spec: one workflow, every input.                                        *)
(***************************************************************************)
Next ==
    \/ \E t \in Tasks : Run(t, FullInputs)
    \/ SetDecision(FullInputs)
    \/ ClearDecision

\* One workflow, the writers of the channel, every outcome of the services.
Spec == Init /\ [][Next]_vars

(***************************************************************************)
(* Two workflows of one orchestrator on one event loop, the writers and    *)
(* the reader of the channel.  The services answer in one way each, so     *)
(* that the interleavings of the two reviews are what varies.              *)
(***************************************************************************)
ConcurrentInputs ==
    [ queries |-> Queries,
      planner |-> { [kind |-> "plan", steps |-> <<StepX, StepA, StepY, StepB>>] },
      tool |-> { [kind |-> "ok", text |-> ResultR1] },
      replanner |-> { [kind |-> "plan", steps |-> <<StepC>>] },
      editor |-> { [kind |-> "plan", steps |-> <<StepA, StepB, StepC, StepA>>] },
      synthesizer |-> { [kind |-> "ok", content |-> <<"Synthesized answer">>] },
      summary |-> SummaryOutcomesSpec,
      decisions |-> { [choice |-> "c", feedback |-> None],
                      [choice |-> "c", feedback |-> Some(FeedbackBlank)],
                      [choice |-> "e", feedback |-> Some(FeedbackText)] },
      max_writes |-> MaxChannelWrites ]

InitConcurrent ==
    /\ system_state = initial_system_state
    /\ human_decision = None
    /\ conversation_history = <<>>
    /\ state = [t \in Tasks |-> idle_state]
    /\ pc = [t \in Tasks |-> "idle"]
    /\ current_iteration = [t \in Tasks |-> 0]
    /\ replan_output = [t \in Tasks |-> no_replan_output]
    /\ review = [t \in Tasks |-> closed_review]
    /\ obs = no_observations

NextConcurrent ==
    \/ \E t \in Tasks : Run(t, ConcurrentInputs)
    \/ SetDecision(ConcurrentInputs)
    \/ ClearDecision
    \/ GetDecisionResponse

SpecConcurrent == InitConcurrent /\ [][NextConcurrent]_vars

(***************************************************************************)
(* One workflow in the scenario of a simple question: the planner returns  *)
(* one SCADA step, the tool returns a result and the replanner answers     *)
(* SYNTHESIZE whenever it is asked.  The human writes any decision, also   *)
(* Edit without feedback or with blank feedback.                           *)
(***************************************************************************)
SingleStepInputs ==
    [ queries |-> Queries,
      planner |-> { [kind |-> "plan", steps |-> <<StepA>>] },
      tool |-> { [kind |-> "ok", text |-> ResultR1] },
      replanner |-> { [kind |-> "response", response |-> SYNTHESIZE] },
      editor |-> EditorOutcomes,
      synthesizer |-> { [kind |-> "ok", content |-> <<"Synthesized answer">>],
                        [kind |-> "http_error"] },
      summary |-> SummaryOutcomesSpec,
      decisions |-> Decisions \cup { [choice |-> "e", feedback |-> None],
                                     [choice |-> "e", feedback |-> Some(FeedbackBlank)],
                                     [choice |-> "edit", feedback |-> Some(<<>>)] },
      max_writes |-> MaxChannelWrites ]

NextSingleStep ==
    \/ \E t \in Tasks : Run(t, SingleStepInputs)
    \/ SetDecision(SingleStepInputs)
    \/ ClearDecision

SpecSingleStep == Init /\ [][NextSingleStep]_vars

(***************************************************************************)
(* The pure components under many inputs: the Step Validator in the        *)
(* planning stage, the Duplicate Detector and the Step Budget Enforcer in  *)
(* the replanning stage.  A behaviour is a planning stage on a raw answer  *)
(* of the service, or a replanning stage of a run that has executed steps  *)
(* with the results drawn here.                                            *)
(***************************************************************************)
Repeat(c, n) == [i \in 1..n |-> c]

\* Raw steps of a plan as the service may give them: tagged steps, a step
\* without a tag, a step of pure analysis, a step of analysis with a
\* data-gathering verb, a step with its tag in lower case and a step with
\* a phrase of pure analysis in upper case.
RawSteps ==
    { StepA, StepB, StepX, StepY,
      <<"S","C","A","D","A",":"," ","G","e","t"," ","p"," ","t","o"," ",
        "d","e","t","e","r","m","i","n","e"," ","r","o","o","t"," ","c","a","u","s","e">>,
      <<"s","c","a","d","a",":"," ","g","e","t"," ","p">>,
      <<"M","A","N","U","A","L",":"," ","D","E","C","I","D","E"," ","O","N"," ","x">> }

RECURSIVE SeqsUpTo(_, _)
SeqsUpTo(S, n) ==
    IF n = 0 THEN { <<>> }
    ELSE LET shorter == SeqsUpTo(S, n - 1)
         IN  shorter \cup { Append(xs, x) : xs \in shorter, x \in S }

\* Results of tools: short ones equal up to case and white space, long ones
\* equal or different within and beyond the compared prefix.
ResultR2 ==
    <<"P"," ","i","s"," ","6">>
DetectorResults ==
    { ResultR1, ResultR1b, ResultR2,
      Repeat("x", ResultPrefixLength) \o <<"a">>,
      Repeat("x", ResultPrefixLength) \o <<"b">>,
      Repeat("x", ResultPrefixLength - 1) \o <<"y", "a">>,
      <<" ">> \o Repeat("X", ResultPrefixLength),
      Repeat("x", ResultPrefixLength - 1) }

EarlierSteps ==
    << <<StepA, ResultR1>>, <<StepB, ResultR2>>, <<StepA, ResultR1>>, <<StepB, ResultR2>> >>

ShortResults == { ResultR1, ResultR1b, ResultR2 }

OraclePastSteps ==
    { << <<StepA, r>> >> : r \in DetectorResults }
      \cup { << <<StepA, r1>>, <<StepB, r2>> >> :
               r1 \in DetectorResults, r2 \in DetectorResults }
      \cup { SubSeq(EarlierSteps, 1, k) \o << <<StepA, r1>>, <<StepB, r2>> >> :
               k \in 1..MaxEarlierSteps, r1 \in ShortResults, r2 \in ShortResults }

\* Proposals of the replanner's service: one to five plain steps, steps
\* with the word "and", with "correlations" in upper case, with "and"
\* inside a word, and steps of one character more than LongStepLength and
\* of exactly LongStepLength characters.
Proposals ==
    { <<StepA>>, <<StepA, StepB>>, <<StepA, StepB, StepA>>,
      <<StepA, StepB, StepA, StepB>>,
      <<StepA, StepB, StepA, StepB, StepA>>,
      <<StepC>>, <<StepA, StepC>>,
      << <<"S","C","A","D","A",":"," ","G","e","t"," ",
           "C","O","R","R","E","L","A","T","I","O","N","S">> >>,
      << <<"M","A","N","U","A","L",":"," ","F","i","n","d"," ",
           "s","t","a","n","d","b","y">> >>,
      << SCADA_PREFIX \o Repeat("z", LongStepLength - Len(SCADA_PREFIX) + 1) >>,
      << SCADA_PREFIX \o Repeat("z", LongStepLength - Len(SCADA_PREFIX)) >>,
      << StepA, SCADA_PREFIX \o Repeat("z", LongStepLength - Len(SCADA_PREFIX) + 1) >> }

OracleInputs ==
    [ queries |-> Queries,
      planner |-> { [kind |-> "error"] }
                    \cup { [kind |-> "plan", steps |-> steps] :
                             steps \in SeqsUpTo(RawSteps, MaxRawSteps) },
      tool |-> ToolOutcomes,
      replanner |-> { [kind |-> "error"],
                      [kind |-> "response", response |-> SYNTHESIZE],
                      [kind |-> "plan", steps |-> <<>>] }
                      \cup { [kind |-> "plan", steps |-> steps] : steps \in Proposals },
      editor |-> EditorOutcomes,
      synthesizer |-> SynthesizerOutcomes,
      summary |-> SummaryOutcomesSpec,
      decisions |-> Decisions,
      max_writes |-> MaxWrites ]

\* The state of a run in its replanning stage after the steps past_steps.
replanning_state(initial_query, past_steps) ==
    [initial_state(initial_query, <<>>) EXCEPT !.past_steps = past_steps]

InitOracles ==
    /\ system_state = initial_system_state
    /\ human_decision = None
    /\ conversation_history = <<>>
    /\ replan_output = [t \in Tasks |-> no_replan_output]
    /\ review = [t \in Tasks |-> closed_review]
    /\ obs = no_observations
    /\ \/ /\ state = [t \in Tasks |-> idle_state]
          /\ pc = [t \in Tasks |-> IF t = 1 THEN "idle" ELSE "absent"]
          /\ current_iteration = [t \in Tasks |-> 0]
       \/ \E past_steps \in OraclePastSteps, initial_query \in Queries :
            /\ state = [t \in Tasks |->
                          IF t = 1 THEN replanning_state(initial_query, past_steps)
                                   ELSE idle_state]
            /\ pc = [t \in Tasks |-> IF t = 1 THEN "replan" ELSE "absent"]
            /\ current_iteration = [t \in Tasks |-> IF t = 1 THEN Len(past_steps) ELSE 0]

NextOracles ==
    \E t \in Tasks :
        \/ StartRun(t, OracleInputs)
        \/ PlannerStep(t, OracleInputs)
        \/ ReplanStep(t, OracleInputs)

SpecOracles == InitOracles /\ [][NextOracles]_vars

(***************************************************************************)
(* One workflow whose replanner proposes steps: a step that is in the      *)
(* plan already, a new step before one that is in the plan, one new step   *)
(* twice, and three plain steps.  The tool gives two results, so that the  *)
(* Duplicate Detector lets the replanner's service be asked.               *)
(***************************************************************************)
ReplanInputs ==
    [ queries |-> Queries,
      planner |-> { [kind |-> "plan", steps |-> <<StepA, StepB>>] },
      tool |-> { [kind |-> "ok", text |-> ResultR1],
                 [kind |-> "ok", text |-> ResultR2] },
      replanner |-> { [kind |-> "response", response |-> SYNTHESIZE],
                      [kind |-> "plan", steps |-> <<StepB>>],
                      [kind |-> "plan", steps |-> <<StepC, StepB>>],
                      [kind |-> "plan", steps |-> <<StepA, StepA>>],
                      [kind |-> "plan", steps |-> <<StepA, StepB, StepA>>] },
      editor |-> { [kind |-> "error"] },
      synthesizer |-> { [kind |-> "ok", content |-> <<"Synthesized answer">>] },
      summary |-> SummaryOutcomesSpec,
      decisions |-> { [choice |-> "c", feedback |-> None] },
      max_writes |-> MaxWrites ]

NextReplan ==
    \/ \E t \in Tasks : Run(t, ReplanInputs)
    \/ SetDecision(ReplanInputs)
    \/ ClearDecision

SpecReplan == Init /\ [][NextReplan]_vars

(***************************************************************************)
(* One workflow of an orchestrator whose conversation memory holds up to   *)
(* MaxTurns turns of earlier runs, each with a query and a summary of its  *)
(* own, in the scenario of a simple question.                              *)
(***************************************************************************)
\* The turn the i-th earlier run has recorded: its texts begin with i marks.
RecordedTurn(i) ==
    [ user_query |-> Repeat("#", i) \o <<" earlier query">>,
      diagnostic_steps |-> << <<StepA, ResultR1>> >>,
      final_response |-> Repeat("#", i) \o <<" earlier answer">>,
      context_summary |-> Repeat("#", i) \o <<" earlier findings">> ]

RecordedHistory(n) == [i \in 1..n |-> RecordedTurn(i)]

InitMemory ==
    /\ system_state = initial_system_state
    /\ human_decision = None
    /\ \E n \in 0..MaxTurns : conversation_history = RecordedHistory(n)
    /\ state = [t \in Tasks |-> idle_state]
    /\ pc = [t \in Tasks |-> IF t = 1 THEN "idle" ELSE "absent"]
    /\ current_iteration = [t \in Tasks |-> 0]
    /\ replan_output = [t \in Tasks |-> no_replan_output]
    /\ review = [t \in Tasks |-> closed_review]
    /\ obs = no_observations

SpecMemory == InitMemory /\ [][NextSingleStep]_vars

(***************************************************************************)
(* api_server.py: the handlers of the queries and of the decisions, and    *)
(* the background task process_query.  A handler runs on the event loop of *)
(* the workflows, from its start to its end without an await.  A task made *)
(* by asyncio.create_task is scheduled ("scheduled") and starts when the   *)
(* event loop gets to it, after whatever was ready before it.  Between the *)
(* start of process_query and the first stage of the workflow ("idle"),    *)
(* and between the return of the workflow and the end of process_query     *)
(* ("returned"), there is no await.                                        *)
(***************************************************************************)
\* The event loop can run a handler of the API.
ApiLoopFree == LoopFree /\ \A u \in Tasks : pc[u] \notin {"idle", "returned"}

\* A faulty handler: a decision in the channel outlives the acceptance.
submit_query_channel_kept == human_decision

\* Lines 206-208: the channel after the acceptance of a query.
submit_query_channel == clear_decision

\* Lines 194-195: the query is accepted.
submit_query_accepts == ~system_state.is_processing

\* Lines 187-217: POST /api/query.  The task made for an accepted query is
\* the first one not yet made; its argument is kept in the input of its state.
SubmitQuery(in) ==
    /\ ApiLoopFree
    /\ \E t \in Tasks, query \in in.queries :
         /\ pc[t] = "absent"
         /\ \A u \in Tasks : u < t => pc[u] # "absent"
         /\ IF submit_query_accepts
            THEN /\ system_state' = [system_state EXCEPT
                                       !.awaiting_human_input = FALSE,
                                       !.human_decision_response = None]
                 /\ human_decision' = submit_query_channel
                 /\ pc' = [pc EXCEPT ![t] = "scheduled"]
                 /\ state' = [state EXCEPT ![t].input = query]
                 /\ obs' = [obs EXCEPT
                              !.chan_wid = IF submit_query_channel = None THEN 0 ELSE @,
                              !.last_call = Some([op |-> "submit_query",
                                                  accepted |-> TRUE]),
                              !.written = [u \in Tasks |-> None],
                              !.accepted[t] = obs.writes]
            ELSE /\ obs' = [obs EXCEPT !.last_call = Some([op |-> "submit_query",
                                                           accepted |-> FALSE])]
                 /\ UNCHANGED <<system_state, human_decision, pc, state>>
    /\ UNCHANGED <<conversation_history, current_iteration, replan_output, review>>

\* Lines 219-228: process_query up to the call of the workflow.
ProcessQueryStart(t) ==
    /\ pc[t] = "scheduled"
    /\ CanRun(t)
    /\ \A u \in Tasks : pc[u] \notin {"idle", "returned"}
    /\ system_state' = [system_state EXCEPT !.is_processing = TRUE,
                                            !.current_query = Some(state[t].input)]
    /\ pc' = [pc EXCEPT ![t] = "idle"]
    /\ UNCHANGED <<human_decision, conversation_history, state, current_iteration,
                   replan_output, review, obs>>

\* Lines 228-248: process_query after the workflow has returned.
ProcessQueryEnd(t) ==
    /\ pc[t] = "returned"
    /\ system_state' = [system_state EXCEPT
                          !.workflow_history =
                              Append(@, [query |-> state[t].input,
                                         result |-> state[t].response]),
                          !.is_processing = FALSE,
                          !.current_query = None,
                          !.awaiting_human_input = FALSE]
    /\ pc' = [pc EXCEPT ![t] = "finished"]
    /\ UNCHANGED <<human_decision, conversation_history, state, current_iteration,
                   replan_output, review, obs>>

\* Lines 250-266: POST /api/human-decision.  The choice is written to the
\* channel without feedback.
SubmitHumanDecision(in) ==
    /\ ApiLoopFree
    /\ obs.writes < in.max_writes
    /\ \E d \in in.decisions :
         /\ human_decision' = set_decision(d.choice, None)
         /\ system_state' = [system_state EXCEPT
                               !.human_decision_response = Some(d.choice)]
         /\ obs' = [obs EXCEPT
                      !.writes = @ + 1,
                      !.chan_wid = obs.writes + 1,
                      !.last_call = Some([op |-> "set", choice |-> d.choice,
                                          feedback |-> None]),
                      !.written = [t \in Tasks |->
                                     IF InReview(t) /\ review[t].st = "sleep"
                                     THEN set_decision(d.choice, None)
                                     ELSE obs.written[t]]]
    /\ UNCHANGED <<conversation_history, state, pc, current_iteration,
                   replan_output, review>>

\* The services answer a simple question in one way each; the human
\* chooses Continue or Synthesize.
ApiInputs ==
    [ queries |-> Queries,
      planner |-> { [kind |-> "plan", steps |-> <<StepA>>] },
      tool |-> { [kind |-> "ok", text |-> ResultR1] },
      replanner |-> { [kind |-> "response", response |-> SYNTHESIZE] },
      editor |-> { [kind |-> "error"] },
      synthesizer |-> { [kind |-> "ok", content |-> <<"Synthesized answer">>] },
      summary |-> SummaryOutcomesSpec,
      decisions |-> { [choice |-> "c", feedback |-> None],
                      [choice |-> "s", feedback |-> None] },
      max_writes |-> MaxChannelWrites ]

InitApi ==
    /\ system_state = initial_system_state
    /\ human_decision = None
    /\ conversation_history = <<>>
    /\ state = [t \in Tasks |-> idle_state]
    /\ pc = [t \in Tasks |-> "absent"]
    /\ current_iteration = [t \in Tasks |-> 0]
    /\ replan_output = [t \in Tasks |-> no_replan_output]
    /\ review = [t \in Tasks |-> closed_review]
    /\ obs = no_observations

\* With these inputs the loop of a workflow ends in its first or second
\* iteration, so the additional review after the loop is not among the
\* stages.
NextApi ==
    \/ SubmitQuery(ApiInputs)
    \/ SubmitHumanDecision(ApiInputs)
    \/ \E t \in Tasks :
          \/ ProcessQueryStart(t)
          \/ StartRun(t, ApiInputs)
          \/ PlannerStep(t, ApiInputs)
          \/ LoopTest(t)
          \/ ExecutorStep(t, ApiInputs)
          \/ ReplanStep(t, ApiInputs)
          \/ Poll(t)
          \/ Wake(t)
          \/ ApplyDecision(t, ApiInputs)
          \/ PostLoop(t)
          \/ SynthesizerStep(t, ApiInputs)
          \/ RecordTurn(t, ApiInputs)
          \/ ProcessQueryEnd(t)

\* The server with up to two queries submitted.
SpecApi == InitApi /\ [][NextApi]_vars

(***************************************************************************)
(* Properties.                                                             *)
(***************************************************************************)
\* C1: every call of run_diagnostic_workflow that returns, returns a
\* response text that is not empty, whatever the services answered and
\* whatever the human decided.
C1_ReturnsResponseText ==
    \A t \in Tasks : pc[t] = "returned" => state[t].response # <<>>

\* C2: the loop of one query runs at most 5 iterations, each iteration
\* executes at most one step, so past_steps never holds more than 5 pairs.
C2_LoopBounded ==
    \A t \in Tasks :
        /\ current_iteration[t] <= 5
        /\ Len(state[t].past_steps) <= current_iteration[t]
        /\ Len(state[t].past_steps) <= 5

\* A run that returned after 5 iterations with 5 executed steps.
C2_FiveStepsExecuted ==
    \E t \in Tasks :
        /\ pc[t] = "returned"
        /\ current_iteration[t] = 5
        /\ Len(state[t].past_steps) = 5

\* C3: an iteration that executes a step dispatches the head of the plan to
\* the tool the head names; the head paired with the tool's result is
\* appended to past_steps and the head alone is removed from the plan.
C3_ExecutesPlanHead ==
    [][\A t \in Tasks :
          (pc[t] = "executor" /\ pc'[t] = "replan") =>
              LET plan == state[t].plan
                  past_steps == state[t].past_steps
                  n == Len(past_steps) + 1
              IN  /\ plan # <<>>
                  /\ Len(state'[t].past_steps) = n
                  /\ SubSeq(state'[t].past_steps, 1, n - 1) = past_steps
                  /\ state'[t].past_steps[n][1] = Head(plan)
                  /\ \E outcome \in ToolOutcomes :
                        state'[t].past_steps[n][2] \in
                            {ScadaAgent_query(outcome), ManualAgent_search(outcome)}
                  /\ state'[t].plan = Tail(plan)]_vars

\* A step was executed from a plan of several steps, after an earlier step.
C3_StepExecuted ==
    \E t \in Tasks :
        /\ pc[t] = "replan"
        /\ Len(state[t].past_steps) >= 2
        /\ Len(state[t].plan) >= 2

\* C4: within one query past_steps only grows at its end: every pair
\* recorded stays at its index with its content, whatever step is taken.
C4_PastStepsAppendOnly ==
    [][\A t \in Tasks :
          pc[t] \notin {"absent", "idle"} =>
              IsPrefix(state[t].past_steps, state'[t].past_steps)]_vars

\* Three steps were recorded and a human decision changed the plan between.
C4_GrownAcrossDecision ==
    \E t \in Tasks :
        /\ Len(state[t].past_steps) >= 3
        /\ obs.applied # <<>>
        /\ obs.planner_ok[t]

\* C5: the step by which a call of run_diagnostic_workflow returns adds
\* exactly one turn to the conversation memory, however the run ended.
C5_OneTurnPerRun ==
    [][\A t \in Tasks :
          (pc[t] # "returned" /\ pc'[t] = "returned") =>
              /\ Len(conversation_history') = Len(conversation_history) + 1
              /\ conversation_history'[Len(conversation_history')].final_response
                     = state'[t].response]_vars

\* A run aborted by the human has returned and its turn is in the memory.
C5_AbortedRunRecorded ==
    \E t \in Tasks :
        /\ pc[t] = "returned"
        /\ state[t].response = AbortText
        /\ Len(conversation_history) = 1

\* C6: a decision written while a review cycle is open and before its
\* timeout resolves that cycle: the cycle returns that decision, not the
\* default of the timeout, and the channel is empty when it returns.
C6_WrittenDecisionResolves ==
    \A t \in Tasks :
        (InReview(t) /\ review[t].st = "returned" /\ obs.written[t] # None) =>
            /\ ~review[t].timed_out
            /\ review[t].result = Some(resolve_decision(Value(obs.written[t])))
            /\ human_decision = None

\* C7: a review cycle that finds no decision at a poll does not return one;
\* when the wait is over it returns Continue without feedback; nothing of
\* the workflow's state changes while the review is open, and the step
\* that applies the timeout's default leaves the plan, past_steps,
\* ready_for_synthesis and the response as they are and goes on.
C7_TimeoutContinues ==
    [][\A t \in Tasks :
          /\ (InReview(t) /\ review[t].st # "returned"
                /\ review'[t].st = "returned" /\ human_decision = None) =>
                 /\ review'[t].timed_out
                 /\ review'[t].result = Some([action |-> "continue"])
          /\ (InReview(t) /\ pc'[t] = pc[t]) => state'[t] = state[t]
          /\ (InReview(t) /\ review[t].st = "returned" /\ review[t].timed_out
                /\ pc'[t] # pc[t]) =>
                 /\ state'[t] = state[t]
                 /\ pc'[t] = IF pc[t] = "review" THEN "loop_test" ELSE "synthesizer"]_vars

\* A review cycle has timed out after steps were executed.
C7_ReviewTimedOut ==
    \E t \in Tasks :
        /\ pc[t] = "review"
        /\ review[t].st = "returned"
        /\ review[t].timed_out
        /\ review[t].elapsed_time = MaxPolls
        /\ state[t].plan # <<>>

\* C8: reading a decision and clearing the channel is one step: no written
\* decision is applied by two review cycles, of one workflow or of two.
C8_NoDecisionAppliedTwice ==
    \A i, j \in 1..Len(obs.applied) :
        i # j => obs.applied[i] # obs.applied[j]

\* Two workflows wait on the channel; the review of one has read a decision
\* while the review of the other still sleeps.
C8_OneOfTwoReviewsResolved ==
    \E t, u \in Tasks :
        /\ t # u
        /\ pc[t] = "review" /\ review[t].st = "returned" /\ ~review[t].timed_out
        /\ pc[u] = "review" /\ review[u].st = "sleep"
        /\ Len(obs.applied) = 2

\* C9: the channel holds one pending decision.  After set_decision(c, f)
\* the channel gives choice c and feedback f and is not awaiting, also when
\* a decision was pending (the last write wins); a read leaves the decision
\* in place; after clear_decision the channel gives nothing and is awaiting;
\* has_feedback holds exactly when a decision is pending whose feedback has
\* a character that is not white space.
C9_ChannelAlgebra ==
    /\ obs.last_call # None =>
         LET call == Value(obs.last_call)
         IN  /\ call.op = "set" =>
                   /\ get_decision # None
                   /\ get_decision_choice = Some(call.choice)
                   /\ get_decision_feedback = call.feedback
                   /\ ~is_awaiting_decision
             /\ call.op = "get" => get_decision = call.returned
             /\ call.op = "clear" => get_decision = None /\ is_awaiting_decision
    /\ has_feedback <=>
         /\ human_decision # None
         /\ Value(human_decision).feedback # None
         /\ \E i \in 1..Len(Value(Value(human_decision).feedback)) :
                ~IsSpace(Value(Value(human_decision).feedback)[i])

\* A second decision was written over a pending one that no review had read.
C9_SecondWriteOverPending ==
    /\ obs.writes = 2
    /\ obs.applied = <<>>
    /\ obs.chan_wid = 2
    /\ has_feedback

\* C10: when every call of the planner's service fails, the run returns the
\* apology text: no step is executed, no review is opened, the synthesizer
\* is not called.
C10_PlannerFailureApologises ==
    \A t \in Tasks :
        (pc[t] \notin {"absent", "idle", "planner"} /\ ~obs.planner_ok[t]) =>
            /\ pc[t] = "returned"
            /\ state[t].response = ApologyText
            /\ state[t].past_steps = <<>>
            /\ review[t] = closed_review

\* C11 as the specification states it: in the scenario (one planned step,
\* executed, the replanner answers SYNTHESIZE) the loop ends after that
\* iteration with ready_for_synthesis true, the synthesizer is called
\* exactly once and the recorded turn carries the submitted query.
C11_SynthesizeSignalEndsLoop ==
    \A t \in Tasks :
        /\ (obs.replanner[t] # None \/ pc[t] \in {"post_loop", "synthesizer", "record", "returned"}) =>
               /\ state[t].ready_for_synthesis
               /\ current_iteration[t] = 1
               /\ ~InReview(t)
        /\ pc[t] \in {"record", "returned"} => Len(obs.synthesized[t]) = 1
        /\ pc[t] = "returned" =>
               conversation_history[Len(conversation_history)].user_query = state[t].input

\* C11, amended: in the scenario the replanning stage only recommends the
\* synthesis: ready_for_synthesis stays false and a review is opened.  The
\* decision Synthesize sets ready_for_synthesis; Continue without feedback
\* (also the default of the timeout) leaves the empty plan, so that the next
\* iteration sets it; Quit sets the abort notice instead.  A run in which
\* the one step was executed and the human did not quit ends with
\* ready_for_synthesis true and its response is the text of the one call of
\* the synthesizer.  No run calls the synthesizer twice and every recorded
\* turn carries the submitted query.
C11_SynthesizeSignalOpensReview ==
    [][\A t \in Tasks :
          /\ (pc[t] = "replan" /\ current_iteration[t] = 1 /\ pc'[t] # "replan") =>
                 /\ replan_output'[t] = [synthesis_recommended |-> TRUE]
                 /\ ~state'[t].ready_for_synthesis
                 /\ state'[t].response = <<>>
                 /\ pc'[t] = "review"
                 /\ review'[t] = open_review
          /\ (pc[t] = "review" /\ current_iteration[t] = 1 /\ pc'[t] # "review") =>
                 LET decision == Value(review[t].result)
                 IN  /\ decision.action = "synthesize" =>
                            /\ state'[t].ready_for_synthesis
                            /\ state'[t].plan = <<>>
                            /\ pc'[t] = "loop_test"
                     /\ decision = [action |-> "continue"] =>
                            /\ state'[t] = state[t]
                            /\ state[t].plan = <<>>
                            /\ pc'[t] = "loop_test"
                     /\ decision.action = "quit" =>
                            /\ state'[t].response = AbortText
                            /\ ~state'[t].ready_for_synthesis
          /\ (pc[t] = "record" /\ pc'[t] = "returned") =>
                 /\ conversation_history'[Len(conversation_history')].user_query
                        = state[t].input
                 /\ state[t].input \in Queries
                 /\ Len(obs.synthesized[t]) <= 1
                 /\ (Len(state[t].past_steps) = 1 /\ state[t].response # AbortText) =>
                        /\ state[t].ready_for_synthesis
                        /\ Len(obs.synthesized[t]) = 1
                        /\ state[t].response = obs.synthesized[t][1]]_vars

\* The review of the scenario timed out, the second iteration found the plan
\* empty, and the run returned after one call of the synthesizer.
C11_SynthesizedAfterReview ==
    \E t \in Tasks :
        /\ pc[t] = "returned"
        /\ current_iteration[t] = 2
        /\ Len(state[t].past_steps) = 1
        /\ obs.applied = <<>>
        /\ Len(obs.synthesized[t]) = 1
        /\ conversation_history[1].user_query = <<"What is the pressure in March?">>

\* C12 as the specification states it: whenever the two most recent results
\* are duplicates, the replanning stage does not call the replanner's
\* service and does not set ready_for_synthesis or the response, and a
\* review is opened with the duplicate warning.
C12_DuplicateOpensReview ==
    [][\A t \in Tasks :
          (pc[t] = "replan" /\ pc'[t] # "replan"
             /\ force_synthesis(state[t].past_steps)) =>
              /\ \A outcome \in ReplannerOutcomes :
                     decide_next_action(state[t], outcome) = [duplicate_warning |-> TRUE]
              /\ obs'.replanner[t] = None
              /\ replan_output'[t] = [duplicate_warning |-> TRUE]
              /\ state'[t].ready_for_synthesis = state[t].ready_for_synthesis
              /\ state'[t].response = state[t].response
              /\ pc'[t] = "review"
              /\ review'[t] = open_review]_vars

\* C12, amended: whenever the two most recent results are duplicates, the
\* replanning stage does not call the replanner's service, returns the
\* duplicate warning and does not set ready_for_synthesis or the response.
\* A review is opened with the warning when a step was executed in this
\* iteration; when the iteration found the plan empty it has set
\* ready_for_synthesis itself, no review is opened and the loop ends.
C12_DuplicateWarnsOnly ==
    [][\A t \in Tasks :
          (pc[t] = "replan" /\ pc'[t] # "replan"
             /\ force_synthesis(state[t].past_steps)) =>
              /\ \A outcome \in ReplannerOutcomes :
                     decide_next_action(state[t], outcome) = [duplicate_warning |-> TRUE]
              /\ obs'.replanner[t] = None
              /\ replan_output'[t] = [duplicate_warning |-> TRUE]
              /\ state'[t].ready_for_synthesis = state[t].ready_for_synthesis
              /\ state'[t].response = state[t].response
              /\ state'[t].plan = state[t].plan
              /\ state'[t].past_steps = state[t].past_steps
              /\ state[t].response = <<>>
              /\ IF state[t].ready_for_synthesis
                 THEN pc'[t] = "loop_test" /\ review'[t] = closed_review
                 ELSE pc'[t] = "review" /\ review'[t] = open_review]_vars

\* A review is open with the duplicate warning after two equal results.
C12_ReviewWithDuplicateWarning ==
    \E t \in Tasks :
        /\ pc[t] = "review"
        /\ review[t].st = "sleep"
        /\ replan_output[t] = [duplicate_warning |-> TRUE]
        /\ Len(state[t].past_steps) >= 2
        /\ ~state[t].ready_for_synthesis

\* Two texts are equal up to letter case and surrounding white space.
EqualUpToCaseAndSpace(a, b) ==
    LET na == {i \in 1..Len(a) : ~IsSpace(a[i])}
        nb == {i \in 1..Len(b) : ~IsSpace(b[i])}
    IN  IF na = {} \/ nb = {} THEN na = {} /\ nb = {}
        ELSE LET fa == CHOOSE i \in na : \A j \in 1..(i - 1) : IsSpace(a[j])
                 la == CHOOSE i \in na : \A j \in (i + 1)..Len(a) : IsSpace(a[j])
                 fb == CHOOSE i \in nb : \A j \in 1..(i - 1) : IsSpace(b[j])
                 lb == CHOOSE i \in nb : \A j \in (i + 1)..Len(b) : IsSpace(b[j])
             IN  /\ la - fa = lb - fb
                 /\ \A k \in 0..(la - fa) : LowerChar(a[fa + k]) = LowerChar(b[fb + k])

\* C13: the replanning stage flags a duplicate exactly when past_steps has
\* at least 2 entries and the first 200 characters of the two most recent
\* results are equal up to letter case and surrounding white space; it does
\* not flag with fewer than 2 entries.
C13_DuplicateDetector ==
    [][\A t \in Tasks :
          (pc[t] = "replan" /\ pc'[t] # "replan") =>
              LET past_steps == state[t].past_steps
                  n == Len(past_steps)
                  flagged == replan_output'[t] = [duplicate_warning |-> TRUE]
                  first200(r) == IF Len(r) <= 200 THEN r ELSE SubSeq(r, 1, 200)
              IN  /\ flagged <=> force_synthesis(past_steps)
                  /\ n < 2 => ~flagged
                  /\ n >= 2 =>
                       (flagged <=>
                          EqualUpToCaseAndSpace(first200(past_steps[n][2]),
                                                first200(past_steps[n - 1][2])))]_vars

\* Two results longer than 200 characters that differ only beyond the
\* compared prefix were flagged.
C13_LongResultsFlagged ==
    \E t \in Tasks :
        LET past_steps == state[t].past_steps
            n == Len(past_steps)
        IN  /\ pc[t] = "review"
            /\ replan_output[t] = [duplicate_warning |-> TRUE]
            /\ n >= 2
            /\ Len(past_steps[n][2]) > 200
            /\ past_steps[n][2] # past_steps[n - 1][2]

\* The proposed steps show consolidation.
Consolidated(steps) ==
    \E i \in 1..Len(steps) :
        \/ Len(steps[i]) > 80
        \/ Contains(Lower(steps[i]), CorrelationsWord)
        \/ Contains(Lower(steps[i]), AndWord)

\* C14: a proposal of the replanner's service with steps is either accepted
\* (returned as the plan) or rejected (returned as the too-many-steps
\* warning).  With total = len(past_steps) + len(proposed steps): a total
\* above 5 is rejected, a total of 3 or less is accepted, and a total of 4
\* or 5 is accepted exactly when the proposed steps show consolidation.  A
\* rejected proposal does not extend the plan.
C14_StepBudget ==
    [][\A t \in Tasks :
          (pc[t] = "replan" /\ pc'[t] # "replan" /\ obs'.replanner[t] # None) =>
              LET outcome == Value(obs'.replanner[t])
                  steps == outcome.steps
                  total == Len(state[t].past_steps) + Len(steps)
                  accepted == replan_output'[t] = [plan |-> steps]
                  rejected == replan_output'[t] = [too_many_steps_warning |-> TRUE]
              IN  (outcome.kind = "plan" /\ outcome.steps # <<>>) =>
                      /\ accepted \/ rejected
                      /\ total > 5 => rejected
                      /\ total <= 3 => accepted
                      /\ (total > 3 /\ total <= 5) => (accepted <=> Consolidated(steps))
                      /\ rejected => /\ state'[t].plan = state[t].plan
                                     /\ pc'[t] = "review"]_vars

\* A proposal that brings the total to 5 was accepted for its consolidation.
C14_SoftLimitAccepted ==
    \E t \in Tasks :
        /\ pc[t] = "review"
        /\ obs.replanner[t] # None
        /\ "plan" \in DOMAIN replan_output[t]
        /\ Len(state[t].past_steps) = 4
        /\ Len(state[t].plan) = 1

\* The step starts with a recognized tool tag.
HasToolTag(step) ==
    \/ Len(step) >= 6 /\ SubSeq(step, 1, 6) = <<"S","C","A","D","A",":">>
    \/ Len(step) >= 7 /\ SubSeq(step, 1, 7) = <<"M","A","N","U","A","L",":">>

\* xs is a subsequence of ys, in the order of ys.
IsSubsequence(xs, ys) ==
    \E f \in [1..Len(xs) -> 1..Len(ys)] :
        /\ \A i, j \in 1..Len(xs) : i < j => f[i] < f[j]
        /\ \A i \in 1..Len(xs) : ys[f[i]] = xs[i]

\* C17: for every list of raw steps the planner's service gives, the plan
\* the Step Validator returns is not empty and each of its elements starts
\* with SCADA: or MANUAL:.  When steps of the list are kept, the plan is
\* exactly the kept steps, a subsequence of the list in its order; when
\* none is kept the plan is the one default step.
C17_StepValidator ==
    [][\A t \in Tasks :
          (pc[t] = "planner" /\ pc'[t] # "planner") =>
              LET raw == call_groq_structured(Value(obs'.planner[t]), "Plan").steps
                  plan == state'[t].plan
                  kept == {i \in 1..Len(raw) : step_is_kept(raw[i])}
              IN  /\ plan # <<>>
                  /\ \A i \in 1..Len(plan) : HasToolTag(plan[i])
                  /\ plan = _validate_steps(raw)
                  /\ pc'[t] = "loop_test"
                  /\ IF kept # {}
                     THEN /\ IsSubsequence(plan, raw)
                          /\ Len(plan) = Cardinality(kept)
                     ELSE plan = << <<"S","C","A","D","A",":"," ","G","e","t"," ",
                                      "c","u","r","r","e","n","t"," ",
                                      "s","y","s","t","e","m"," ",
                                      "r","e","a","d","i","n","g","s">> >>]_vars

\* Of three raw steps the first was dropped and the other two were kept.
C17_StepsDroppedInOrder ==
    \E t \in Tasks :
        /\ pc[t] = "loop_test"
        /\ obs.planner[t] # None
        /\ Value(obs.planner[t]).kind = "plan"
        /\ Len(Value(obs.planner[t]).steps) = 3
        /\ ~step_is_kept(Value(obs.planner[t]).steps[1])
        /\ state[t].plan = Tail(Value(obs.planner[t]).steps)

\* The decision is Edit and its feedback is absent, empty or blank.
IsBlankEdit(d) ==
    /\ d.choice \in {"e", "edit"}
    /\ IF d.feedback = None THEN TRUE ELSE Strip(Value(d.feedback)) = <<>>

\* C15: when the review reads an Edit decision whose feedback is absent,
\* empty or blank, it returns what it returns for Continue without
\* feedback; the decision calls neither create_plan_from_feedback nor
\* modify_plan_with_feedback, and the step that applies it leaves plan,
\* past_steps, ready_for_synthesis and response as they were and goes where
\* Continue goes: to the loop's test in the loop, to the synthesizer after
\* the loop.
C15_BlankEditIsContinue ==
    [][\A t \in Tasks :
          /\ ( /\ InReview(t)
               /\ review[t].st # "returned"
               /\ review'[t].st = "returned"
               /\ ~review'[t].timed_out
               /\ IsBlankEdit(Value(human_decision)) ) =>
                  /\ review'[t].result = Some([action |-> "continue"])
                  /\ review'[t].result
                        = Some(resolve_decision([choice |-> "c", feedback |-> None]))
                  /\ ~editor_called(Value(review'[t].result))
                  /\ \A outcome \in EditorOutcomes :
                        apply_decision(state[t], Value(review'[t].result), outcome)
                          = state[t]
          /\ ( /\ InReview(t)
               /\ review[t].st = "returned"
               /\ review[t].result = Some([action |-> "continue"])
               /\ pc'[t] # pc[t] ) =>
                  /\ state'[t].plan = state[t].plan
                  /\ state'[t].past_steps = state[t].past_steps
                  /\ state'[t].ready_for_synthesis = state[t].ready_for_synthesis
                  /\ state'[t].response = state[t].response
                  /\ obs'.planner_ok[t] = obs.planner_ok[t]
                  /\ pc'[t] = IF pc[t] = "review" THEN "loop_test"
                                                 ELSE "synthesizer"]_vars

\* The review of a workflow with steps left in its plan has returned for an
\* Edit with blank feedback that was written while it waited.
C15_BlankEditConsumed ==
    \E t \in Tasks :
        /\ InReview(t)
        /\ review[t].st = "returned"
        /\ ~review[t].timed_out
        /\ review[t].result = Some([action |-> "continue"])
        /\ obs.written[t] # None
        /\ IsBlankEdit(Value(obs.written[t]))
        /\ Value(obs.written[t]).feedback = Some(FeedbackBlank)
        /\ human_decision = None
        /\ state[t].plan # <<>>
        /\ state[t].past_steps # <<>>

\* The replanner's service answered the last replanning stage of task t
\* with a text of its own.
DirectResponse(t) ==
    /\ obs.replanner[t] # None
    /\ Value(obs.replanner[t]).kind = "response"
    /\ Value(obs.replanner[t]).response # SYNTHESIZE

\* C16 (as stated): the response a workflow returns is the text the
\* synthesizer returned, unless a human chose Quit or the initial plan was
\* empty.
C16_OnlyQuitOrEmptyPlanSkipSynthesis ==
    \A t \in Tasks :
        pc[t] = "returned" =>
            \/ state[t].response = AbortText
            \/ state[t].response = ApologyText
            \/ /\ obs.synthesized[t] # <<>>
               /\ state[t].response = obs.synthesized[t][Len(obs.synthesized[t])]

\* C16 (amended): the response a workflow returns is one of five texts:
\* the text of the synthesizer (its fallback included, and possibly empty),
\* the text for a human's Quit, the text for an empty initial plan, the
\* text the replanner's service gave as a direct response, or the default
\* text for a workflow that ended without synthesis.  The synthesizer is
\* called at most once and its text is returned whenever it was called; a
\* direct response of the replanner is returned as it is and the
\* synthesizer is not called.
C16_ExitsWithoutSynthesis ==
    \A t \in Tasks :
        pc[t] \in {"record", "returned"} =>
            LET r == state[t].response
            IN  /\ Len(obs.synthesized[t]) <= 1
                /\ obs.synthesized[t] # <<>> => r = obs.synthesized[t][1]
                /\ DirectResponse(t) =>
                      /\ r = Value(obs.replanner[t]).response
                      /\ obs.synthesized[t] = <<>>
                /\ obs.synthesized[t] = <<>> =>
                      \/ r = AbortText /\ obs.applied # <<>>
                      \/ r = ApologyText /\ state[t].past_steps = <<>>
                      \/ r = NoSynthesisText /\ ~state[t].ready_for_synthesis
                      \/ DirectResponse(t)

\* A workflow has returned the direct response of the replanner's service:
\* steps were executed, no human chose Quit and the synthesizer was not
\* called.
C16_DirectResponseReturned ==
    \E t \in Tasks :
        /\ pc[t] = "returned"
        /\ DirectResponse(t)
        /\ state[t].response = Value(obs.replanner[t]).response
        /\ state[t].past_steps # <<>>
        /\ obs.synthesized[t] = <<>>
        /\ obs.applied = <<>>

\* C18: when the tool fails while a step is executed, the Executor step
\* ends as it ends for a result: the executed step is appended to
\* past_steps with a result that is the tool's error head ("SCADA error: "
\* or "Manual search error: ") followed by the message of the failure, the
\* step is removed from the plan, response and ready_for_synthesis are not
\* written, and the workflow is at the replanning stage of the same
\* iteration.
C18_ToolFailureIsAResult ==
    [][\A t \in Tasks :
          ( /\ pc[t] = "executor"
            /\ pc'[t] # "executor"
            /\ Value(obs'.tool[t]).kind = "error" ) =>
              LET step == state[t].plan[1]
                  head == IF tool_used(step) = "SCADA" THEN ScadaErrorHead
                                                       ELSE ManualErrorHead
                  message == Value(obs'.tool[t]).text
              IN  /\ state'[t].past_steps
                        = Append(state[t].past_steps, <<step, head \o message>>)
                  /\ state'[t].plan = Tail(state[t].plan)
                  /\ state'[t].response = state[t].response
                  /\ state'[t].ready_for_synthesis = state[t].ready_for_synthesis
                  /\ pc'[t] = "replan"
                  /\ current_iteration'[t] = current_iteration[t]]_vars

\* A step whose tool failed is the last of past_steps, with the error text
\* as its result, and the workflow is at the replanning stage.
C18_FailedStepRecorded ==
    \E t \in Tasks :
        /\ pc[t] = "replan"
        /\ obs.tool[t] # None
        /\ Value(obs.tool[t]).kind = "error"
        /\ state[t].past_steps # <<>>
        /\ state[t].past_steps[Len(state[t].past_steps)][2]
              = ScadaErrorHead \o ErrorMessage
        /\ current_iteration[t] >= 1

\* C19: the query a run was called with stays in its state for the whole
\* run, and the step that records the run's turn appends, after the turns
\* already in the memory, a turn whose user_query is that query, whose
\* diagnostic_steps are the run's past_steps as they stand (in the order of
\* execution) and whose final_response is the response the run returns.
C19_RecordedTurn ==
    [][\A t \in Tasks :
          /\ pc[t] \notin {"absent", "idle"} => state'[t].input = state[t].input
          /\ (pc[t] = "record" /\ pc'[t] # "record") =>
                LET n == Len(conversation_history)
                    turn == conversation_history'[n + 1]
                IN  /\ Len(conversation_history') = n + 1
                    /\ SubSeq(conversation_history', 1, n) = conversation_history
                    /\ turn.user_query = state[t].input
                    /\ turn.diagnostic_steps = state[t].past_steps
                    /\ turn.final_response = state[t].response
                    /\ state'[t] = state[t]
                    /\ pc'[t] = "returned"]_vars

\* A run of two executed steps has returned and its turn is in the memory.
C19_TurnOfTwoSteps ==
    \E t \in Tasks :
        /\ pc[t] = "returned"
        /\ Len(conversation_history) = 1
        /\ conversation_history[1].user_query = state[t].input
        /\ Len(conversation_history[1].diagnostic_steps) = 2
        /\ conversation_history[1].diagnostic_steps = state[t].past_steps
        /\ conversation_history[1].final_response = state[t].response
        /\ state[t].plan # <<>>

\* C20: a run takes as its turn_number the length of the conversation
\* memory at its start plus one and keeps it to its end.  A run that
\* starts after another run of the orchestrator has returned has a greater
\* number than that run, and a run that starts while no other run is under
\* way has the number of the runs returned so far plus one: runs one after
\* the other are numbered 1, 2, ... and no two of them share a number.
C20_TurnNumbers ==
    [][\A u \in Tasks :
          /\ pc[u] \notin {"absent", "idle"} =>
                state'[u].turn_number = state[u].turn_number
          /\ (pc[u] = "idle" /\ pc'[u] # "idle") =>
                LET others == Tasks \ {u}
                    returned == {t \in others : pc[t] = "returned"}
                IN  /\ state'[u].turn_number = Len(conversation_history) + 1
                    /\ \A t \in returned :
                          state'[u].turn_number > state[t].turn_number
                    /\ (\A t \in others : pc[t] \in {"absent", "idle", "returned"}) =>
                          state'[u].turn_number = Cardinality(returned) + 1]_vars

\* The first run has returned as turn 1 and the run after it is under way
\* as turn 2.
C20_SecondRunIsTurnTwo ==
    \E t, u \in Tasks :
        /\ pc[t] = "returned"
        /\ state[t].turn_number = 1
        /\ pc[u] \notin {"absent", "idle", "returned"}
        /\ state[u].turn_number = 2
        /\ Len(conversation_history) = 1

\* C21: the step that applies a Quit decision, in the loop or after it,
\* sets the response to "Workflow aborted by human." and leaves the loop.
\* From then on the response stays that text to the return, plan and
\* past_steps are not written (no step is executed), no review is open and
\* the synthesizer is not called.
C21_QuitAborts ==
    [][\A t \in Tasks :
          /\ ( /\ InReview(t)
               /\ review[t].st = "returned"
               /\ Value(review[t].result).action = "quit"
               /\ pc'[t] # pc[t] ) =>
                  /\ state'[t].response = AbortText
                  /\ pc'[t] \in {"post_loop", "synthesizer"}
          /\ state[t].response = AbortText =>
                  /\ state'[t].response = AbortText
                  /\ state'[t].past_steps = state[t].past_steps
                  /\ state'[t].plan = state[t].plan
                  /\ pc[t] \in {"post_loop", "synthesizer", "record", "returned"}
                  /\ pc'[t] \in {"synthesizer", "record", "returned"}
                  /\ review'[t] = closed_review
                  /\ obs'.synthesized[t] = <<>>]_vars

\* A run with steps left in its plan has returned the abort notice after a
\* human's decision; the synthesizer was not called.
C21_AbortedWithPlanLeft ==
    \E t \in Tasks :
        /\ pc[t] = "returned"
        /\ state[t].response = AbortText
        /\ state[t].plan # <<>>
        /\ state[t].past_steps # <<>>
        /\ ~state[t].ready_for_synthesis
        /\ obs.applied # <<>>
        /\ obs.synthesized[t] = <<>>

\* C22: the step that applies a Synthesize decision sets
\* ready_for_synthesis and writes neither plan, past_steps nor response.
\* A workflow that is ready for synthesis with an empty response, at the
\* loop's test or after the loop, executes no step and opens no review,
\* whatever is left in its plan: it goes to the synthesizer, which is
\* called once, with the state holding those past_steps, and whose text
\* becomes the response.
C22_SynthesizeDecision ==
    [][\A t \in Tasks :
          /\ ( /\ InReview(t)
               /\ review[t].st = "returned"
               /\ Value(review[t].result).action = "synthesize"
               /\ pc'[t] # pc[t] ) =>
                  /\ state'[t].ready_for_synthesis
                  /\ state'[t].plan = state[t].plan
                  /\ state'[t].past_steps = state[t].past_steps
                  /\ state'[t].response = <<>>
                  /\ obs'.synthesized[t] = <<>>
                  /\ pc'[t] \in {"loop_test", "synthesizer"}
          /\ ( /\ state[t].ready_for_synthesis
               /\ state[t].response = <<>>
               /\ pc[t] \in {"loop_test", "post_loop", "synthesizer"}
               /\ pc'[t] # pc[t] ) =>
                  /\ state'[t].plan = state[t].plan
                  /\ state'[t].past_steps = state[t].past_steps
                  /\ state'[t].ready_for_synthesis
                  /\ review'[t] = closed_review
                  /\ IF pc[t] = "synthesizer"
                     THEN /\ obs.synthesized[t] = <<>>
                          /\ Len(obs'.synthesized[t]) = 1
                          /\ \E outcome \in SynthesizerOutcomes :
                                obs'.synthesized[t][1]
                                  = synthesize_response(state[t], outcome).response
                          /\ state'[t].response = obs'.synthesized[t][1]
                          /\ pc'[t] = "record"
                     ELSE /\ state'[t].response = <<>>
                          /\ obs'.synthesized[t] = <<>>
                          /\ pc'[t] = IF pc[t] = "loop_test" THEN "post_loop"
                                                               ELSE "synthesizer"]_vars

\* A human's decision in the loop made the workflow ready for synthesis
\* with steps left in the plan; the synthesizer has been called once and
\* the plan is still there.
C22_SynthesizedWithPlanLeft ==
    \E t \in Tasks :
        /\ pc[t] = "record"
        /\ state[t].ready_for_synthesis
        /\ replan_output[t] = no_replan_output
        /\ obs.applied # <<>>
        /\ state[t].plan # <<>>
        /\ Len(state[t].past_steps) >= 2
        /\ Len(obs.synthesized[t]) = 1
        /\ state[t].response = obs.synthesized[t][1]

\* The decision is Continue and its feedback is absent, empty or blank.
IsPlainContinue(d) ==
    /\ d.choice \in {"c", "continue"}
    /\ IF d.feedback = None THEN TRUE ELSE Strip(Value(d.feedback)) = <<>>

\* C23: a Continue decision whose feedback is absent, empty or blank is
\* returned by the review without feedback; it calls no operation of the
\* planner, and the step that applies it writes nothing of the state: plan,
\* past_steps, ready_for_synthesis and response are as before.
C23_PlainContinue ==
    [][\A t \in Tasks :
          /\ ( /\ InReview(t)
               /\ review[t].st # "returned"
               /\ review'[t].st = "returned"
               /\ ~review'[t].timed_out
               /\ IsPlainContinue(Value(human_decision)) ) =>
                  /\ DOMAIN Value(review'[t].result) = {"action"}
                  /\ Value(review'[t].result).action = "continue"
          /\ ( /\ InReview(t)
               /\ review[t].st = "returned"
               /\ Value(review[t].result).action = "continue"
               /\ "feedback" \notin DOMAIN Value(review[t].result)
               /\ pc'[t] # pc[t] ) =>
                  /\ ~editor_called(Value(review[t].result))
                  /\ state'[t] = state[t]
                  /\ obs'.planner_ok = obs.planner_ok]_vars

\* The review of a workflow with steps left in its plan has returned for a
\* Continue with blank feedback that was written while it waited.
C23_BlankContinueConsumed ==
    \E t \in Tasks :
        /\ pc[t] = "review"
        /\ review[t].st = "returned"
        /\ ~review[t].timed_out
        /\ obs.written[t] # None
        /\ Value(obs.written[t]).choice = "c"
        /\ Value(obs.written[t]).feedback = Some(FeedbackBlank)
        /\ review[t].result = Some([action |-> "continue"])
        /\ state[t].plan # <<>>

\* The validated plans of the answers of the plan-generating service that
\* carry steps.
GeneratedPlans ==
    { _validate_steps(o.steps) :
        o \in {e \in EditorOutcomes : e.kind = "plan" /\ e.steps # <<>>} }

\* C24: the step that applies an Edit decision with feedback leaves
\* past_steps as they were, and the plan after it is either a plan
\* generated and validated from an answer of the service, or, when the
\* generation failed or gave nothing, the plan as it was.
C24_EditReplacesOrKeeps ==
    [][\A t \in Tasks :
          ( /\ InReview(t)
            /\ review[t].st = "returned"
            /\ Value(review[t].result).action = "edit"
            /\ pc'[t] # pc[t] ) =>
              /\ state'[t].past_steps = state[t].past_steps
              /\ \/ state'[t].plan \in GeneratedPlans
                 \/ state'[t].plan = state[t].plan]_vars

\* C25: after the step that applies a Continue decision with feedback, in
\* the loop or after it, the plan has at most ModifyPlanLimit steps.
C25_ModifyCapsPlan ==
    [][\A t \in Tasks :
          ( /\ InReview(t)
            /\ review[t].st = "returned"
            /\ Value(review[t].result).action = "continue"
            /\ feedback_text_of(Value(review[t].result)) # <<>>
            /\ pc'[t] # pc[t] ) =>
              Len(state'[t].plan) <= ModifyPlanLimit]_vars

\* The plan with its first step annotated with the feedback and every other
\* step as it was.
AnnotatedPlan(plan, feedback) ==
    << plan[1] \o IncorporatingHead \o Take(feedback, FeedbackExcerptLength)
               \o IncorporatingTail >> \o Tail(plan)

\* C26: the step that applies a Continue decision with feedback to a plan
\* that is not empty leaves either a plan rewritten from an answer of the
\* service (validated, at most ModifyPlanLimit steps) or, when the service
\* failed, the plan as it was with only its first step annotated with the
\* feedback.
C26_ModifyFailureAnnotates ==
    [][\A t \in Tasks :
          ( /\ InReview(t)
            /\ review[t].st = "returned"
            /\ Value(review[t].result).action = "continue"
            /\ feedback_text_of(Value(review[t].result)) # <<>>
            /\ state[t].plan # <<>>
            /\ pc'[t] # pc[t] ) =>
              \/ state'[t].plan
                    \in {Take(plan, ModifyPlanLimit) : plan \in GeneratedPlans}
              \/ state'[t].plan
                    = AnnotatedPlan(state[t].plan,
                                    feedback_text_of(Value(review[t].result)))]_vars

\* C27: after the step that applies an Edit decision with feedback or a
\* Continue decision with feedback, the steps done and the steps left in
\* the plan are together at most HardStepLimit.
C27_EditorsWithinBudget ==
    [][\A t \in Tasks :
          ( /\ InReview(t)
            /\ review[t].st = "returned"
            /\ editor_called(Value(review[t].result))
            /\ pc'[t] # pc[t] ) =>
              Len(state'[t].past_steps) + Len(state'[t].plan) <= HardStepLimit]_vars

\* No step is in the list twice.
NoStepTwice(steps) ==
    \A i, j \in 1..Len(steps) : i # j => steps[i] # steps[j]

\* C28: when the replanning stage accepts the steps the replanner
\* proposed, the plan after it is the plan before it followed by the
\* proposed steps that are equal to no step of the plan before, in the
\* order of the proposal; and a plan without a step twice is a plan
\* without a step twice afterwards.
C28_MergeKeepsPlanDistinct ==
    [][\A t \in Tasks :
          ( /\ pc[t] = "replan"
            /\ pc'[t] # "replan"
            /\ "plan" \in DOMAIN replan_output'[t] ) =>
              LET is_new(step) == ~InList(step, state[t].plan)
                  proposed == replan_output'[t].plan
              IN  /\ state'[t].plan = state[t].plan \o SelectSeq(proposed, is_new)
                  /\ NoStepTwice(state[t].plan) => NoStepTwice(state'[t].plan)]_vars

\* C29: when the replanner proposed steps and every one of them is in the
\* plan already, and the workflow is neither ready for synthesis nor has a
\* response, the replanning stage sets ready_for_synthesis: the workflow
\* does not go on with the plan it had and no response.
C29_NothingNewForcesSynthesis ==
    [][\A t \in Tasks :
          ( /\ pc[t] = "replan"
            /\ pc'[t] # "replan"
            /\ "plan" \in DOMAIN replan_output'[t]
            /\ replan_output'[t].plan # <<>>
            /\ \A i \in 1..Len(replan_output'[t].plan) :
                  InList(replan_output'[t].plan[i], state[t].plan)
            /\ ~state[t].ready_for_synthesis
            /\ state[t].response = <<>> ) =>
              state'[t].ready_for_synthesis]_vars

\* The budget check rejects the steps the replanner's service proposed in
\* the replanning stage that task t is leaving.
ProposalRejected(t) ==
    /\ pc[t] = "replan"
    /\ pc'[t] # "replan"
    /\ obs'.replanner[t] # None
    /\ Value(obs'.replanner[t]).kind = "plan"
    /\ Value(obs'.replanner[t]).steps # <<>>
    /\ too_many_steps(state[t].past_steps, Value(obs'.replanner[t]).steps)

\* C30 as the specification states it: when the budget check rejects a
\* proposal, the plan is not extended, ready_for_synthesis and the response
\* are not set, and a review is opened with the too-many-steps warning.
C30_RejectionOpensReview ==
    [][\A t \in Tasks :
          ProposalRejected(t) =>
              /\ replan_output'[t] = [too_many_steps_warning |-> TRUE]
              /\ state'[t].plan = state[t].plan
              /\ state'[t].ready_for_synthesis = state[t].ready_for_synthesis
              /\ state'[t].response = state[t].response
              /\ pc'[t] = "review"
              /\ review'[t] = open_review]_vars

\* C30, amended: when the budget check rejects a proposal, the replanning
\* stage returns the too-many-steps warning, the plan and past_steps are as
\* before, and ready_for_synthesis and the response are not set by it.  A
\* review is opened with the warning when a step was executed in this
\* iteration; when the iteration found the plan empty it has set
\* ready_for_synthesis itself, no review is opened and the loop ends.
C30_RejectionWarnsOnly ==
    [][\A t \in Tasks :
          ProposalRejected(t) =>
              /\ replan_output'[t] = [too_many_steps_warning |-> TRUE]
              /\ state'[t].plan = state[t].plan
              /\ state'[t].past_steps = state[t].past_steps
              /\ state'[t].ready_for_synthesis = state[t].ready_for_synthesis
              /\ state'[t].response = state[t].response
              /\ state[t].response = <<>>
              /\ IF state[t].ready_for_synthesis
                 THEN /\ state[t].plan = <<>>
                      /\ pc'[t] = "loop_test"
                      /\ review'[t] = closed_review
                 ELSE /\ pc'[t] = "review"
                      /\ review'[t] = open_review]_vars

\* A review is open with the too-many-steps warning after a proposal of
\* three plain steps was rejected; the plan holds the step it held.
C30_ReviewWithBudgetWarning ==
    \E t \in Tasks :
        /\ pc[t] = "review"
        /\ review[t].st = "sleep"
        /\ replan_output[t] = [too_many_steps_warning |-> TRUE]
        /\ obs.replanner[t] = Some([kind |-> "plan", steps |-> <<StepA, StepB, StepA>>])
        /\ state[t].plan = <<StepB>>
        /\ ~state[t].ready_for_synthesis
        /\ state[t].response = <<>>

\* An iteration of the loop of task t begins: the loop's test passes.
IterationBegins(t) ==
    pc[t] = "loop_test" /\ loop_continues(state[t], current_iteration[t])

\* C31: an iteration of the loop that begins with an empty plan sets
\* ready_for_synthesis and goes to the replanning stage without executing
\* a step; the replanning stage of that iteration leaves
\* ready_for_synthesis set, executes no step and opens no review, whatever
\* the replanner answers; the loop's test that follows ends the loop
\* without another iteration.
C31_EmptyPlanEndsLoop ==
    [][\A t \in Tasks :
          /\ (IterationBegins(t) /\ state[t].plan = <<>> /\ pc'[t] # pc[t]) =>
                  /\ state'[t].ready_for_synthesis
                  /\ pc'[t] = "replan"
                  /\ state'[t].past_steps = state[t].past_steps
                  /\ review'[t] = closed_review
          /\ (pc[t] = "replan" /\ state[t].ready_for_synthesis /\ pc'[t] # pc[t]) =>
                  /\ state'[t].ready_for_synthesis
                  /\ state'[t].past_steps = state[t].past_steps
                  /\ pc'[t] = "loop_test"
                  /\ review'[t] = closed_review
          /\ (pc[t] = "loop_test" /\ state[t].ready_for_synthesis /\ pc'[t] # pc[t]) =>
                  /\ pc'[t] = "post_loop"
                  /\ current_iteration'[t] = current_iteration[t]
                  /\ state'[t] = state[t]]_vars

\* The loop has ended after an iteration that began with an empty plan:
\* steps were executed, the replanner recommended synthesis in the last
\* replanning stage, which sets no flag, and ready_for_synthesis is set
\* although no human chose Synthesize.
C31_LoopEndedOnEmptyPlan ==
    \E t \in Tasks :
        /\ pc[t] = "post_loop"
        /\ state[t].ready_for_synthesis
        /\ state[t].plan = <<>>
        /\ state[t].past_steps # <<>>
        /\ replan_output[t] = [synthesis_recommended |-> TRUE]
        /\ current_iteration[t] < max_iterations

\* C32: the replanning stage of an iteration opens a review exactly when it
\* ends with ready_for_synthesis false and the response empty; the review
\* is left only when it has resolved, by a decision or by the timeout, and
\* then the iteration is over: the next stage is the loop's test or the end
\* of the loop.  A step is executed only from the loop's test, and the
\* loop's test is reached from the planner, from a replanning stage that
\* has ended the loop, or from a resolved review: when a second or later
\* step is executed, a review has resolved since the replanning stage
\* before it.
C32_ReviewBetweenSteps ==
    [][\A t \in Tasks :
          /\ (pc[t] = "replan" /\ pc'[t] # pc[t]) =>
                  IF ~state'[t].ready_for_synthesis /\ state'[t].response = <<>>
                  THEN pc'[t] = "review" /\ review'[t] = open_review
                  ELSE pc'[t] = "loop_test" /\ review'[t] = closed_review
                       /\ ~loop_continues(state'[t], current_iteration'[t])
          /\ (pc[t] = "review" /\ pc'[t] # pc[t]) =>
                  /\ review[t].st = "returned"
                  /\ review[t].result # None
                  /\ review[t].timed_out => Value(review[t].result) = timeout_decision
                  /\ review'[t] = closed_review
                  /\ pc'[t] \in {"loop_test", "post_loop"}
                  /\ current_iteration'[t] = current_iteration[t]
                  /\ replan_output'[t] = no_replan_output
          /\ (pc'[t] = "executor" /\ pc[t] # "executor") => pc[t] = "loop_test"
          /\ (pc'[t] = "loop_test" /\ pc[t] # "loop_test") =>
                  pc[t] \in {"planner", "replan", "review"}
          /\ (pc[t] = "executor" /\ state[t].past_steps # <<>>) =>
                  replan_output[t] = no_replan_output
          /\ (pc[t] = "executor" /\ pc'[t] # pc[t]) =>
                  /\ Len(state'[t].past_steps) = Len(state[t].past_steps) + 1
                  /\ pc'[t] = "replan"]_vars

\* A third step has been executed; of the two reviews before it, one
\* resolved by a decision read from the channel and one by the timeout.
C32_ThirdStepAfterTwoReviews ==
    \E t \in Tasks :
        /\ pc[t] = "replan"
        /\ Len(state[t].past_steps) = 3
        /\ current_iteration[t] = 3
        /\ Len(obs.applied) = 1

\* C33: synthesize_response is called at most once in a run, and the step
\* that calls it starts in the synthesizer stage from a state with
\* ready_for_synthesis set and an empty response; the text it returns is
\* the response from then on, and a state with a response never calls it.
C33_SynthesizerOnceWhenDue ==
    [][\A t \in Tasks :
          /\ Len(obs'.synthesized[t]) <= 1
          /\ obs'.synthesized[t] # obs.synthesized[t] =>
                  /\ pc[t] = "synthesizer"
                  /\ obs.synthesized[t] = <<>>
                  /\ state[t].ready_for_synthesis
                  /\ state[t].response = <<>>
                  /\ state'[t].response = obs'.synthesized[t][1]
          /\ (pc[t] = "synthesizer" /\ pc'[t] # pc[t]
                 /\ ~(state[t].ready_for_synthesis /\ state[t].response = <<>>)) =>
                  /\ obs'.synthesized[t] = obs.synthesized[t]
                  /\ state[t].response # <<>> => state'[t].response = state[t].response]_vars

\* The synthesizer was called once, after executed steps, from a state
\* that was ready for synthesis, and its text is the response.
C33_SynthesizerCalled ==
    \E t \in Tasks :
        /\ pc[t] = "record"
        /\ Len(obs.synthesized[t]) = 1
        /\ state[t].ready_for_synthesis
        /\ state[t].response = obs.synthesized[t][1]
        /\ state[t].past_steps # <<>>

\* The stages of a run after its loop.
AfterLoop == {"post_loop", "final_review", "synthesizer", "record", "returned"}

\* C34: a run whose loop has ended with ready_for_synthesis false and an
\* empty response has used all max_iterations iterations, and opens one
\* additional review, which is the only one after the loop.  The decision
\* of that review is applied and the run goes to the synthesizer stage:
\* after Synthesize the synthesizer is called, after Quit the response is
\* the abort notice, and after Continue, Edit or the timeout the response
\* becomes the default text of a run without synthesis.  No stage after
\* the loop executes a step, whatever the review did to the plan.
C34_AdditionalReview ==
    [][\A t \in Tasks :
          /\ (pc[t] = "post_loop" /\ pc'[t] # pc[t]) =>
                  IF ~state[t].ready_for_synthesis /\ state[t].response = <<>>
                  THEN /\ current_iteration[t] = max_iterations
                       /\ pc'[t] = "final_review"
                       /\ review'[t] = open_review
                  ELSE /\ pc'[t] = "synthesizer"
                       /\ review'[t] = closed_review
          /\ (pc[t] = "final_review" /\ pc'[t] # pc[t]) =>
                  /\ review[t].st = "returned"
                  /\ review'[t] = closed_review
                  /\ pc'[t] = "synthesizer"
                  /\ LET action == Value(review[t].result).action
                     IN  IF action = "synthesize"
                         THEN state'[t].ready_for_synthesis /\ state'[t].response = <<>>
                         ELSE IF action = "quit"
                         THEN state'[t].response = AbortText
                         ELSE /\ action \in {"continue", "edit"}
                              /\ ~state'[t].ready_for_synthesis
                              /\ state'[t].response = <<>>
          /\ (pc[t] = "synthesizer" /\ pc'[t] # pc[t]) =>
                  /\ pc'[t] = "record"
                  /\ IF state[t].response # <<>>
                     THEN state'[t].response = state[t].response
                     ELSE IF state[t].ready_for_synthesis
                     THEN Len(obs'.synthesized[t]) = Len(obs.synthesized[t]) + 1
                     ELSE /\ state'[t].response = NoSynthesisText
                          /\ obs'.synthesized[t] = obs.synthesized[t]
          /\ pc[t] \in AfterLoop =>
                  /\ pc'[t] \in AfterLoop
                  /\ pc'[t] = "final_review" => pc[t] \in {"post_loop", "final_review"}
                  /\ pc'[t] = "post_loop" => pc[t] = "post_loop"
                  /\ state'[t].past_steps = state[t].past_steps]_vars

\* A run has returned the default text after five iterations and five
\* executed steps: an Edit decision in the review of the fifth iteration
\* or in the additional review replaced the plan, the additional review
\* did not end in Synthesize or Quit, and the four steps of the new plan
\* were not executed.
C34_DefaultTextAfterEdit ==
    \E t \in Tasks :
        /\ pc[t] = "returned"
        /\ state[t].response = NoSynthesisText
        /\ current_iteration[t] = max_iterations
        /\ Len(state[t].past_steps) = max_iterations
        /\ state[t].plan = <<StepA, StepB, StepC, StepA>>
        /\ obs.synthesized[t] = <<>>

\* The replanner's service answered the last replanning stage of task t
\* with a text of its own that is not empty.
DirectText(t) ==
    IF DirectResponse(t) /\ Value(obs.replanner[t]).response # <<>>
    THEN Some(Value(obs.replanner[t]).response)
    ELSE None

\* C35: the replanning stage in which the replanner's service answers with
\* a text of its own that is not empty stores that text as the response,
\* opens no review and executes no step.  From there the run goes through
\* the loop's test, which ends the loop, and the stages after the loop to
\* its return: the response stays that text, no step is executed, no
\* review is opened and the synthesizer is not called.
C35_DirectResponseEndsRun ==
    [][\A t \in Tasks :
          /\ (pc[t] = "replan" /\ pc'[t] # pc[t] /\ DirectText(t)' # None) =>
                  /\ state'[t].response = Value(DirectText(t)')
                  /\ state'[t].past_steps = state[t].past_steps
                  /\ pc'[t] = "loop_test"
                  /\ review'[t] = closed_review
          /\ (pc[t] # "replan" /\ DirectText(t) # None) =>
                  /\ pc[t] \in {"loop_test", "post_loop", "synthesizer", "record",
                                "returned"}
                  /\ state[t].response = Value(DirectText(t))
                  /\ DirectText(t)' = DirectText(t)
                  /\ state'[t].response = state[t].response
                  /\ state'[t].past_steps = state[t].past_steps
                  /\ review'[t] = closed_review
                  /\ obs'.synthesized[t] = obs.synthesized[t]
                  /\ pc'[t] \in {pc[t], "post_loop", "synthesizer", "record", "returned"}
                  /\ pc[t] = "loop_test" => pc'[t] \in {pc[t], "post_loop"}]_vars

\* A run has returned the replanner's own text after one executed step,
\* with steps left in its plan and without a call of the synthesizer.
C35_ReturnedDirectText ==
    \E t \in Tasks :
        /\ pc[t] = "returned"
        /\ DirectText(t) = Some(<<"Direct answer">>)
        /\ state[t].response = <<"Direct answer">>
        /\ Len(state[t].past_steps) = 1
        /\ state[t].plan # <<>>
        /\ obs.synthesized[t] = <<>>

\* C36: the replanning stage in which the call of the replanner's service
\* fails leaves the plan as it was, sets neither ready_for_synthesis nor
\* the response, returns the replan-failed warning, and a review is opened
\* with that warning.
C36_ReplanFailureWarns ==
    [][\A t \in Tasks :
          ( /\ pc[t] = "replan"
            /\ pc'[t] # pc[t]
            /\ obs'.replanner[t] = Some([kind |-> "error"])
            /\ ~state[t].ready_for_synthesis ) =>
              /\ replan_output'[t] = [replan_failed_warning |-> TRUE]
              /\ state'[t].plan = state[t].plan
              /\ ~state'[t].ready_for_synthesis
              /\ state'[t].response = <<>>
              /\ pc'[t] = "review"
              /\ review'[t] = open_review]_vars

\* C37: every step leaves the turns of conversation_history in place and
\* unchanged; the only step that changes it is the recording step of a
\* run, its last before the return, which appends one turn, the turn of
\* that run.  The memory holds at most one turn per run that has returned,
\* and a run that starts derives its planning context and its turn number
\* from the memory of that moment, so from turns of returned runs only.
C37_MemoryAppendOnly ==
    [][/\ IsPrefix(conversation_history, conversation_history')
       /\ conversation_history' # conversation_history =>
              \E t \in Tasks :
                  /\ pc[t] = "record"
                  /\ pc'[t] = "returned"
                  /\ Len(conversation_history') = Len(conversation_history) + 1
                  /\ LET turn == conversation_history'[Len(conversation_history')]
                     IN  /\ turn.user_query = state[t].input
                         /\ turn.diagnostic_steps = state[t].past_steps
                         /\ turn.final_response = state[t].response
       /\ Len(conversation_history) <= Cardinality({t \in Tasks : pc[t] = "returned"})
       /\ \A t \in Tasks :
              /\ (pc[t] = "idle" /\ pc'[t] # pc[t]) =>
                     /\ state'[t].current_turn_context =
                            _get_conversation_context(conversation_history,
                                                      state'[t].input)
                     /\ conversation_history' = conversation_history
              /\ pc[t] \notin {"absent", "idle"} =>
                     state'[t].current_turn_context = state[t].current_turn_context]_vars

\* Two runs have returned and the memory holds their two turns; the later
\* run started after the earlier one had returned and planned with the
\* earlier turn as its context, the earlier run planned without context.
C37_TwoTurnsRecorded ==
    \E t, u \in Tasks :
        /\ pc[t] = "returned"
        /\ pc[u] = "returned"
        /\ Len(conversation_history) = 2
        /\ state[t].current_turn_context = <<>>
        /\ state[u].current_turn_context =
               _get_conversation_context(SubSeq(conversation_history, 1, 1),
                                         state[u].input)
        /\ conversation_history[1].diagnostic_steps = state[t].past_steps
        /\ conversation_history[2].diagnostic_steps = state[u].past_steps

\* The first position of the text sub in the text s, or 0.
FirstAt(s, sub) ==
    LET at == {i \in 1..(Len(s) - Len(sub) + 1) : SubSeq(s, i, i + Len(sub) - 1) = sub}
    IN  IF at = {} THEN 0 ELSE CHOOSE i \in at : \A j \in at : i <= j

\* C38: the planning context a run starts with is empty exactly when the
\* conversation memory is empty.  Otherwise it holds the query and the
\* findings of a recorded turn exactly when the turn is one of the last
\* RecentTurns turns of the memory, each once, the turns in the order of
\* the memory and the query of a turn before its findings, and after them
\* the query of the run.
C38_ContextOfRecentTurns ==
    [][\A t \in Tasks :
          (pc[t] = "idle" /\ pc'[t] # pc[t]) =>
              LET h == conversation_history
                  n == Len(h)
                  ctx == state'[t].current_turn_context
                  query(i) == <<"Query: ">> \o h[i].user_query
                  findings(i) == <<"Key Findings: ">> \o h[i].context_summary
                  recent == {i \in 1..n : i > n - RecentTurns}
                  count(c) == Cardinality({k \in 1..Len(ctx) : ctx[k] = c})
              IN  /\ (ctx = <<>>) <=> (n = 0)
                  /\ Cardinality(recent) <= RecentTurns
                  /\ count("Query: ") = Cardinality(recent)
                  /\ count("Key Findings: ") = Cardinality(recent)
                  /\ \A i \in 1..n :
                        /\ Contains(ctx, query(i)) <=> i \in recent
                        /\ Contains(ctx, findings(i)) <=> i \in recent
                  /\ \A i \in recent :
                        /\ FirstAt(ctx, query(i)) < FirstAt(ctx, findings(i))
                        /\ \A j \in recent :
                              i < j => FirstAt(ctx, findings(i)) < FirstAt(ctx, query(j))
                  /\ n > 0 =>
                        /\ StartsWith(ctx, <<"Previous conversation context: ">>)
                        /\ \A i \in recent :
                              FirstAt(ctx, findings(i))
                                 < FirstAt(ctx, <<" Current query: ">> \o state'[t].input)]_vars

\* A run has started with MaxTurns turns in the memory: its context holds
\* the last RecentTurns turns and none of the older ones.
C38_ContextDropsOlderTurns ==
    \E t \in Tasks :
        /\ pc[t] = "planner"
        /\ Len(conversation_history) = MaxTurns
        /\ state[t].turn_number = MaxTurns + 1
        /\ \A i \in 1..MaxTurns :
              Contains(state[t].current_turn_context,
                       <<"Query: ">> \o conversation_history[i].user_query)
                 <=> i > MaxTurns - RecentTurns

\* The workflows in flight: the tasks made for accepted queries whose
\* process_query has not ended.
InFlight == {t \in Tasks : pc[t] \notin {"absent", "finished"}}

\* C39: at most one workflow is in flight at any time; a query submitted
\* while is_processing is set is rejected, and the rejection makes no task
\* and leaves the channel and system_state as they are.
C39_OneWorkflowInFlight ==
    [][/\ Cardinality(InFlight) <= 1
       /\ Cardinality(InFlight') <= 1
       /\ (obs'.last_call = Some([op |-> "submit_query", accepted |-> FALSE])
             /\ obs'.last_call # obs.last_call) =>
               /\ system_state.is_processing
               /\ pc' = pc
               /\ human_decision' = human_decision
               /\ system_state' = system_state
       /\ (obs'.last_call = Some([op |-> "submit_query", accepted |-> TRUE])
             /\ pc' # pc) =>
               ~system_state.is_processing]_vars

\* C40: the step that accepts the query of a task leaves the channel empty
\* and only schedules the task; a review of the task resolves by the
\* timeout or with a decision that was written after the acceptance.
C40_StaleDecisionNotConsumed ==
    [][\A t \in Tasks :
          /\ (pc[t] = "absent" /\ pc'[t] # pc[t]) =>
                 /\ pc'[t] = "scheduled"
                 /\ human_decision' = None
                 /\ obs'.accepted[t] = obs.writes
          /\ (InReview(t) /\ review[t].st # "returned"
                 /\ review'[t].st = "returned") =>
                 IF review'[t].timed_out
                 THEN obs'.applied = obs.applied
                 ELSE /\ obs'.applied = Append(obs.applied, obs.chan_wid)
                      /\ obs.chan_wid > obs.accepted[t]
                      /\ human_decision # None]_vars

\* A decision was written while one query was in flight and was not
\* consumed; then the query of task t was accepted, a second decision was
\* written, and a review of task t has resolved with the second decision.
C40_ResolvedWithLaterDecision ==
    \E t \in Tasks :
        /\ obs.accepted[t] = 1
        /\ \A u \in Tasks \ {t} : pc[u] # "absent" /\ obs.accepted[u] = 0
        /\ pc[t] = "review"
        /\ review[t].st = "returned"
        /\ ~review[t].timed_out
        /\ obs.applied = <<2>>

====
